---- MODULE Spec2Model ----
(***************************************************************************)
(* A model of the nationalbanken.dk document scraper                       *)
(* (src/shadow_scraper.py, class NationalbankenScraper; src/scraper_dlz.py *)
(* holds the same logic as module-level functions).                        *)
(*                                                                         *)
(* Strings are sequences of one-character strings, so that suffix tests,   *)
(* lower-casing, basename, sanitising and strip() are computed as the      *)
(* code computes them.                                                     *)
(***************************************************************************)
EXTENDS Integers, Sequences, FiniteSets, TLC

(***************************************************************************)
(* Bounds of the model.                                                    *)
(***************************************************************************)
\* download_pdf calls made in the store-only specification
MaxCalls == 2
\* external modifications of the store in the store-only specification
MaxExternal == 1
\* largest value of MAX_PAGES_TO_SCRAPE the crawl is checked with
MaxPages == 3
\* failures and interrupts the environment causes during one crawl
MaxFaults == 2
\* elements of a page forest the locator is run on
MaxNodes == 3
\* boundaries in which the pattern query throws
MaxThrows == 1
\* per-page metadata files in the store of a recombination
MaxFiles == 2
\* records in the metadata of an organize run
MaxRecords == 3
\* characters of a filename handed to download_pdf
MaxLen == 3
\* the number of organize_pdfs runs in a row
MaxRuns == 2

(***************************************************************************)
(* Strings.                                                                *)
(***************************************************************************)
UpperChars == {"P", "D", "F"}
LowerChars == {"a", "b", "c", "l", "x", "p", "d", "f", "m"}
DigitChars == {"0", "1", "2", "5"}
\* characters for which str.isalnum() is true ("H" stands for the letters of
\* a scheme and host, kept as one character)
AlnumChars == UpperChars \cup LowerChars \cup DigitChars
SafePunct == {".", "_", "-"}
Whitespace == {" ", "\n"}

\* c.lower() for one character
LowerChar(c) ==
    CASE c = "P" -> "p"
      [] c = "D" -> "d"
      [] c = "F" -> "f"
      [] OTHER -> c

\* str.lower()
Lower(s) == [i \in 1..Len(s) |-> LowerChar(s[i])]

\* str.endswith(suffix)
EndsWith(s, suffix) ==
    /\ Len(s) >= Len(suffix)
    /\ SubSeq(s, Len(s) - Len(suffix) + 1, Len(s)) = suffix

\* suffix in s
Contains(s, sub) ==
    \E i \in 1..(Len(s) + 1) :
        /\ i + Len(sub) - 1 <= Len(s)
        /\ SubSeq(s, i, i + Len(sub) - 1) = sub

DotPdf == <<".", "p", "d", "f">>
DotMd5 == <<".", "m", "d", "5">>

\* href.lower().endswith('.pdf')
LowerEndsWithPdf(s) == EndsWith(Lower(s), DotPdf)

\* position of the last "/" of s, 0 when there is none
RECURSIVE LastSlash(_, _)
LastSlash(s, i) ==
    IF i = 0 THEN 0
    ELSE IF s[i] = "/" THEN i
    ELSE LastSlash(s, i - 1)

\* os.path.basename(path)
Basename(s) == SubSeq(s, LastSlash(s, Len(s)) + 1, Len(s))

\* str.strip(): leading and trailing whitespace removed
RECURSIVE LStrip(_)
LStrip(s) ==
    IF s # <<>> /\ Head(s) \in Whitespace THEN LStrip(Tail(s)) ELSE s

RECURSIVE RStrip(_)
RStrip(s) ==
    IF s # <<>> /\ s[Len(s)] \in Whitespace
    THEN RStrip(SubSeq(s, 1, Len(s) - 1))
    ELSE s

Strip(s) == RStrip(LStrip(s))

\* Python's None, as a value of the same shape as a string
None == <<"None">>

\* truth value of a str-or-None
Truthy(v) == v # None /\ v # <<>>

(***************************************************************************)
(* URLs: a scheme-and-host part ("" for a relative reference), a path and  *)
(* a query.                                                                *)
(***************************************************************************)
\* BASE_URL, its scheme and host as one character
BASE_URL == <<"H">>

Url(host, path, query) == [host |-> host, path |-> path, query |-> query]

\* the URL as one string
UrlStr(u) ==
    u.host \o u.path \o (IF u.query = <<>> THEN <<>> ELSE <<"?">> \o u.query)

\* urljoin(BASE_URL, href)
urljoin(base, u) ==
    IF u.host # <<>> THEN u
    ELSE IF u.path = <<>> THEN Url(base, <<>>, u.query)
    ELSE IF Head(u.path) = "/" THEN Url(base, u.path, u.query)
    ELSE Url(base, <<"/">> \o u.path, u.query)

(***************************************************************************)
(* The content store: the files of DOCS_DIR, by name.                      *)
(***************************************************************************)
\* safe_filename: the basename with every character other than
\* alphanumerics, '.', '_' and '-' replaced by '_'
SafeFilename(filename) ==
    LET b == Basename(filename)
    IN  [i \in 1..Len(b) |->
            IF b[i] \in AlnumChars \cup SafePunct THEN b[i] ELSE "_"]

\* md5_filepath = filepath + ".md5"
Md5Path(filepath) == filepath \o DotMd5

\* hashlib.md5 of a file's bytes as hexdigest text: injective, never empty,
\* free of whitespace
HexOf(c) == IF c = " " THEN "20" ELSE IF c = "\n" THEN "0a" ELSE c
Md5Hex(bytes) == <<"#">> \o [i \in 1..Len(bytes) |-> HexOf(bytes[i])]

\* a path of the store: absent, a readable file, or a file that cannot be read
Absent == [st |-> "absent", text |-> <<>>]
File(text) == [st |-> "file", text |-> text]
Unreadable(text) == [st |-> "unreadable", text |-> text]

\* os.path.exists
Exists(d, path) == d[path].st # "absent"

\* compute_md5(path): the digest, None when reading fails
compute_md5(d, path) ==
    IF d[path].st = "file" THEN Md5Hex(d[path].text) ELSE None

\* the sidecar as read: f.read().strip(), None when reading fails
saved_md5_mut_nostrip(d, md5_filepath) ==
    IF d[md5_filepath].st = "file" THEN d[md5_filepath].text ELSE None
saved_md5(d, md5_filepath) ==
    IF d[md5_filepath].st = "file" THEN Strip(d[md5_filepath].text) ELSE None

\* the cache test of download_pdf: file and sidecar exist and the digests agree
CacheHit(d, filepath) ==
    /\ Exists(d, filepath)
    /\ Exists(d, Md5Path(filepath))
    /\ LET existing_md5 == compute_md5(d, filepath)
           saved == saved_md5(d, Md5Path(filepath))
       IN  /\ Truthy(existing_md5)
           /\ Truthy(saved)
           /\ existing_md5 = saved

\* the number of chunks written before a transfer breaks
CutAt == 1

\* what can happen to one fetch
FetchOutcomes ==
    { "ok",            \* transfer, write, digest and sidecar all succeed
      "transport",     \* requests.get raises (connection error, timeout)
      "status",        \* raise_for_status raises
      "open_fail",     \* open(filepath, "wb") raises IOError
      "stream_fail",   \* iter_content raises mid-transfer
      "write_fail",    \* f.write raises IOError mid-transfer
      "md5_fail",      \* the written file cannot be read back
      "sidecar_fail",  \* open(md5_filepath, "w") raises IOError
      "sidecar_trunc"  \* writing the sidecar raises after it was truncated
    }

\* the result of one download_pdf call: the value returned, whether a
\* network request was issued, the message printed, and the store afterwards
Result(md5, net, log, d) == [md5 |-> md5, net |-> net, log |-> log, disk |-> d]

\* the value returned on a failed fetch
FailureValue_mut_distinct(outcome) == <<"None", outcome>>
FailureValue(outcome) == None

\* the digest written to the sidecar
SidecarWritten_mut_skip(d, md5_filepath, md5_hash) == d
SidecarWritten(d, md5_filepath, md5_hash) ==
    [d EXCEPT ![md5_filepath] = File(md5_hash)]

\* the store after a transfer that broke with part written: the file is cut
\* short and the sidecar is as it was
BrokenTransfer_mut_sidecar(d, filepath, part) ==
    [d EXCEPT ![filepath] = File(part),
              ![Md5Path(filepath)] = File(Md5Hex(part))]
BrokenTransfer(d, filepath, part) == [d EXCEPT ![filepath] = File(part)]

\* the fetch branch of download_pdf
Fetch(d, filepath, body, outcome, cut) ==
    LET md5p == Md5Path(filepath)
        part == SubSeq(body, 1, cut)
        whole == [d EXCEPT ![filepath] = File(body)]
    IN  CASE outcome \in {"transport", "status"} ->
                Result(FailureValue(outcome), TRUE, "Error downloading", d)
          [] outcome = "open_fail" ->
                Result(FailureValue(outcome), TRUE, "Error writing file", d)
          [] outcome = "stream_fail" ->
                Result(FailureValue(outcome), TRUE, "Error downloading",
                       BrokenTransfer(d, filepath, part))
          [] outcome = "write_fail" ->
                Result(FailureValue(outcome), TRUE, "Error writing file",
                       BrokenTransfer(d, filepath, part))
          [] outcome = "md5_fail" ->
                Result(None, TRUE, "Downloaded",
                       [d EXCEPT ![filepath] = Unreadable(body)])
          [] outcome = "sidecar_fail" ->
                Result(FailureValue(outcome), TRUE, "Error writing file", whole)
          [] outcome = "sidecar_trunc" ->
                Result(FailureValue(outcome), TRUE, "Error writing file",
                       [whole EXCEPT ![md5p] = File(<<>>)])
          [] OTHER ->
                Result(compute_md5(whole, filepath), TRUE, "MD5 hash saved",
                       SidecarWritten(whole, md5p, compute_md5(whole, filepath)))

\* download_pdf without its cache test
download_pdf_mut_always_fetch(d, pdf_url, filename, body, outcome, cut) ==
    Fetch(d, SafeFilename(filename), body, outcome, cut)
\* download_pdf(pdf_url, filename) in store d, the server sending body and
\* the fetch ending as outcome
download_pdf(d, pdf_url, filename, body, outcome, cut) ==
    LET filepath == SafeFilename(filename)
    IN  IF CacheHit(d, filepath)
        THEN Result(compute_md5(d, filepath), FALSE, "Skipping download", d)
        ELSE Fetch(d, filepath, body, outcome, cut)

(***************************************************************************)
(* The contents the model works with.                                      *)
(***************************************************************************)
\* file names handed to download_pdf in the store-only specification: two
\* that sanitise to the same name
StoreFilenames == {<<"a", " ", "b", ".", "p", "d", "f">>,
                   <<"d", "/", "a", "_", "b", ".", "p", "d", "f">>}

\* URLs handed to download_pdf in the store-only specification
StoreUrls == {Url(BASE_URL, <<"/", "a", ".", "p", "d", "f">>, <<>>),
              Url(BASE_URL, <<"/", "c", ".", "p", "d", "f">>, <<>>)}

\* what another process may leave at a path of the store
ExternalStates ==
    { Absent, Unreadable(<<>>), File(<<"x", "y">>),
      File(Md5Hex(<<"x", "y">>)), File(Md5Hex(<<"x", "y">>) \o <<"\n">>),
      File(<<"\n">>) }

VARIABLES
    disk,       \* the store: path -> Absent, File(text) or Unreadable(text)
    call,       \* the last download_pdf call: arguments, store before, result
    quiet,      \* no external modification since the last download_pdf call
    ncalls,     \* download_pdf calls made
    nexternal,  \* external modifications made
    completed   \* the transfers that ran to their end: path and body

store_vars == <<disk, call, quiet, ncalls, nexternal, completed>>

\* the record kept of one download_pdf call: its arguments, the file and the
\* sidecar before it, its value, whether it issued a request, its message,
\* and (again) the value of the call right before it when that call had the
\* same arguments and nothing else touched the store in between, else None
CallRecord(pdf_url, filename, d, r, again) ==
    [url |-> pdf_url, filename |-> filename,
     pre_file |-> d[SafeFilename(filename)],
     pre_side |-> d[Md5Path(SafeFilename(filename))],
     md5 |-> r.md5, net |-> r.net, log |-> r.log, again |-> again]

NoCall ==
    [url |-> [host |-> <<>>, path |-> <<>>, query |-> <<>>], filename |-> <<>>,
     pre_file |-> Absent, pre_side |-> Absent,
     md5 |-> None, net |-> FALSE, log |-> "none", again |-> None]

\* the outcomes of a fetch with the whole body received and written
TransferCompleted(outcome) ==
    outcome \in {"ok", "md5_fail", "sidecar_fail", "sidecar_trunc"}

\* one download_pdf call and its bookkeeping
DoDownload(pdf_url, filename, body, outcome, cut) ==
    \E r \in {download_pdf(disk, pdf_url, filename, body, outcome, cut)} :
        /\ disk' = r.disk
        /\ completed' =
               IF r.net /\ TransferCompleted(outcome)
               THEN completed \cup {<<SafeFilename(filename), body>>}
               ELSE completed
        /\ call' = CallRecord(pdf_url, filename, disk, r,
                              IF /\ call.url = pdf_url
                                 /\ call.filename = filename
                                 /\ quiet
                              THEN call.md5
                              ELSE None)
        /\ quiet' = TRUE
        /\ ncalls' = ncalls + 1


(***************************************************************************)
(* The site: results pages and article pages.                              *)
(***************************************************************************)
\* an <a> element of an article page: its href attribute (the empty URL when
\* it has none), whether it has a download attribute, whether its class is
\* related-card__link, and whether it lies inside a shadow root
Anchor(href, download, related, shadow) ==
    [tag |-> "a", href |-> href, download |-> download, related |-> related,
     shadow |-> shadow, link |-> "none"]

\* an element with a link attribute: link is "obj" for a JSON object with the
\* url href, "nourl" for one without url, "malformed" for unparsable text
LinkElement(link, href, shadow) ==
    [tag |-> "custom", href |-> href, download |-> FALSE, related |-> FALSE,
     shadow |-> shadow, link |-> link]

NoUrl == Url(<<>>, <<>>, <<>>)
PathA == <<"/", "a", ".", "p", "d", "f">>
PathB == <<"/", "b", ".", "P", "D", "F">>
PathDl == <<"/", "d", "l">>
RelA == Url(<<>>, PathA, <<>>)
AbsA == Url(BASE_URL, PathA, <<>>)
RelB == Url(<<>>, PathB, <<>>)
RelDl == Url(<<>>, PathDl, <<>>)
\* a(1).pdf : a name with characters the store replaces
PathParen == <<"/", "a", "(", "1", ")", ".", "p", "d", "f">>
RelParen == Url(<<>>, PathParen, <<>>)
\* a.pdf?x : '.pdf' inside the href, not at its end
RelAQuery == Url(<<>>, PathA, <<"x">>)

\* /?.pdf : an href that ends in '.pdf' with a path that names no file
RelNoName == Url(<<>>, <<"/">>, <<".", "p", "d", "f">>)

\* the article pages of the model, each a document-order list of elements
PageEmpty == <<>>
\* a shadow link and a link attribute naming the same file, the attribute
\* relative
PageRelative ==
    << Anchor(RelA, FALSE, TRUE, TRUE), LinkElement("obj", RelA, FALSE) >>
\* the same, the attribute absolute
PageAbsolute ==
    << Anchor(RelA, FALSE, TRUE, TRUE), LinkElement("obj", AbsA, TRUE) >>
\* two shadow links, the second with an upper-case extension
PageTwo ==
    << Anchor(RelA, TRUE, TRUE, TRUE), Anchor(RelB, FALSE, FALSE, TRUE) >>
\* the same file linked twice in shadow roots
PageTwice ==
    << Anchor(RelA, FALSE, FALSE, TRUE), Anchor(AbsA, FALSE, FALSE, TRUE) >>
\* a download-marked shadow link without the extension, and a light link
PageDownload ==
    << Anchor(RelDl, TRUE, TRUE, TRUE), Anchor(RelA, FALSE, FALSE, FALSE) >>
\* light links only
PageLight ==
    << Anchor(RelA, FALSE, FALSE, FALSE), LinkElement("obj", RelB, FALSE) >>
\* a shadow link only the last selector matches, and unusable link attributes
PageQuery ==
    << Anchor(RelAQuery, FALSE, FALSE, TRUE),
       LinkElement("malformed", NoUrl, FALSE),
       LinkElement("nourl", NoUrl, TRUE) >>

\* a shadow link whose path has no basename, and one that has
PageNoName ==
    << Anchor(RelNoName, FALSE, FALSE, TRUE), Anchor(RelA, FALSE, FALSE, TRUE) >>

\* a shadow link to a file whose name the store sanitizes
PageParen == << Anchor(RelParen, FALSE, FALSE, TRUE) >>

\* link.href in the browser: the attribute resolved against the page's URL,
\* '' without an href attribute
HrefProperty(e) == IF e.href = NoUrl THEN NoUrl ELSE urljoin(BASE_URL, e.href)

\* the href attribute as written
HrefAttribute(e) == UrlStr(e.href)

\* a link candidate: a dict built from the analysis ("dict"), a WebElement
\* ("element") or a dict from a link attribute ("custom"); href is what the
\* code reads as its href, elem the page element it came from
Candidate(kind, href, elem) == [kind |-> kind, href |-> href, elem |-> elem]

\* the indices of 1..n that are in S, in increasing order (document order)
Indices(n, S) ==
    LET in(i) == i \in S
    IN  SelectSeq([i \in 1..n |-> i], in)

\* pdfLinks of analyze_shadow_dom_structure, filtered as run() filters them
AnalysisLinks(page) ==
    LET found(i) ==
            /\ page[i].tag = "a"
            /\ page[i].shadow
            /\ \/ LowerEndsWithPdf(UrlStr(HrefProperty(page[i])))
               \/ page[i].download
        kept(i) ==
            /\ found(i)
            /\ Truthy(UrlStr(HrefProperty(page[i])))
            /\ \/ LowerEndsWithPdf(UrlStr(HrefProperty(page[i])))
               \/ page[i].download
        idx == Indices(Len(page), {i \in 1..Len(page) : kept(i)})
    IN  [k \in 1..Len(idx) |->
            Candidate("dict", HrefProperty(page[idx[k]]), idx[k])]

\* the CSS selectors of run()
SelRelatedDownload(e) == e.tag = "a" /\ e.related /\ e.download
SelRelatedPdf(e) ==
    e.tag = "a" /\ e.related /\ EndsWith(HrefAttribute(e), DotPdf)
SelDownload(e) == e.tag = "a" /\ e.download
SelPdf(e) == e.tag = "a" /\ EndsWith(HrefAttribute(e), DotPdf)
SelPdfAnywhere(e) == e.tag = "a" /\ Contains(HrefAttribute(e), DotPdf)

\* shadow_selectors, in order
Matches(k, e) ==
    CASE k = 1 -> SelRelatedDownload(e)
      [] k = 2 -> SelRelatedPdf(e)
      [] k = 3 -> SelDownload(e)
      [] k = 4 -> SelPdf(e)
      [] OTHER -> SelPdfAnywhere(e)

NumSelectors == 5

\* the WebElements for the elements of the page with an index in S
Elements(page, S) ==
    LET idx == Indices(Len(page), S)
    IN  [k \in 1..Len(idx) |->
            Candidate("element", HrefProperty(page[idx[k]]), idx[k])]

\* driver.find_elements(By.CSS_SELECTOR,
\*     "a.related-card__link[download], a[href$='.pdf']"): the light DOM only
RegularLinks(page) ==
    LET hit(i) ==
            /\ ~page[i].shadow
            /\ (SelRelatedDownload(page[i]) \/ SelPdf(page[i]))
    IN  Elements(page, {i \in 1..Len(page) : hit(i)})

\* find_elements_in_all_shadow_roots(selector) on an article page
ShadowLinks(page, k) ==
    LET hit(i) == page[i].shadow /\ Matches(k, page[i])
    IN  Elements(page, {i \in 1..Len(page) : hit(i)})

\* extract_pdf_links_from_custom_elements
CustomLinks(page) ==
    LET hit(i) ==
            /\ page[i].tag = "custom"
            /\ page[i].link = "obj"
            /\ Truthy(UrlStr(page[i].href))
            /\ LowerEndsWithPdf(UrlStr(page[i].href))
        idx == Indices(Len(page), {i \in 1..Len(page) : hit(i)})
    IN  [k \in 1..Len(idx) |-> Candidate("custom", page[idx[k]].href, idx[k])]

(***************************************************************************)
(* Link discovery of one article visit.                                    *)
(***************************************************************************)
SelectorName(k) == <<"shadow1", "shadow2", "shadow3", "shadow4", "shadow5">>[k]

\* the loop over shadow_selectors from selector k on: the links of the first
\* selector that matches anything, and the selectors queried
RECURSIVE FirstSelector(_, _)
FirstSelector(page, k) ==
    IF k > NumSelectors THEN [links |-> <<>>, queried |-> <<>>]
    ELSE IF ShadowLinks(page, k) # <<>>
         THEN [links |-> ShadowLinks(page, k), queried |-> <<SelectorName(k)>>]
         ELSE LET rest == FirstSelector(page, k + 1)
              IN  [links |-> rest.links,
                   queried |-> <<SelectorName(k)>> \o rest.queried]

\* every strategy run and every match kept
PatternSide_mut_all(page) ==
    [links |-> AnalysisLinks(page) \o RegularLinks(page) \o ShadowLinks(page, 1)
                 \o ShadowLinks(page, 2) \o ShadowLinks(page, 3)
                 \o ShadowLinks(page, 4) \o ShadowLinks(page, 5),
     queried |-> <<"analysis", "regular", "shadow1", "shadow2", "shadow3",
                   "shadow4", "shadow5">>]
\* the regular-DOM query made before the analysis links are looked at
PatternSide_mut_regular_first(page) ==
    IF RegularLinks(page) # <<>>
    THEN [links |-> RegularLinks(page), queried |-> <<"analysis", "regular">>]
    ELSE IF AnalysisLinks(page) # <<>>
    THEN [links |-> AnalysisLinks(page), queried |-> <<"analysis", "regular">>]
    ELSE LET sh == FirstSelector(page, 1)
         IN  [links |-> sh.links,
              queried |-> <<"analysis", "regular">> \o sh.queried]
\* pdf_links of run(): the analysis links, else the regular-DOM links, else
\* the links of the first matching shadow selector
PatternSide(page) ==
    IF AnalysisLinks(page) # <<>>
    THEN [links |-> AnalysisLinks(page), queried |-> <<"analysis">>]
    ELSE IF RegularLinks(page) # <<>>
    THEN [links |-> RegularLinks(page), queried |-> <<"analysis", "regular">>]
    ELSE LET sh == FirstSelector(page, 1)
         IN  [links |-> sh.links,
              queried |-> <<"analysis", "regular">> \o sh.queried]

\* is href already the href of a link of the list, as the merge compares them
HrefPresent(links, href) ==
    \E i \in 1..Len(links) : UrlStr(links[i].href) = UrlStr(href)

\* the structured-attribute link replaces the pattern-side one
RECURSIVE MergeLinks_mut_lastwins(_, _)
MergeLinks_mut_lastwins(all, custom) ==
    IF custom = <<>> THEN all
    ELSE LET link == Head(custom)
             others == SelectSeq(all, LAMBDA l : UrlStr(l.href) # UrlStr(link.href))
         IN  MergeLinks_mut_lastwins(
                 IF Truthy(UrlStr(link.href)) THEN Append(others, link) ELSE all,
                 Tail(custom))
\* all_pdf_links: the pattern-side links, then each link of custom_pdf_links
\* whose href is not yet present
RECURSIVE MergeLinks(_, _)
MergeLinks(all, custom) ==
    IF custom = <<>> THEN all
    ELSE LET link == Head(custom)
         IN  MergeLinks(
                 IF Truthy(UrlStr(link.href)) /\ ~HrefPresent(all, link.href)
                 THEN Append(all, link)
                 ELSE all,
                 Tail(custom))

\* the test that lets a candidate through to download_pdf
AcceptedForFetch(pdf_href, download) ==
    Truthy(UrlStr(pdf_href)) /\ LowerEndsWithPdf(UrlStr(pdf_href))

\* is a record made of what download_pdf returned
RecordMade_mut_always(md5_hash) == TRUE
RecordMade(md5_hash) == Truthy(md5_hash)

\* all_metadata and page_metadata after the record is appended to both
AppendRecord_mut_global_only(all, batch, rec) ==
    [all |-> Append(all, rec), batch |-> batch]
AppendRecord(all, batch, rec) ==
    [all |-> Append(all, rec), batch |-> Append(batch, rec)]

\* what becomes of an accepted candidate by its file name: dropped with
\* "Could not determine filename" when the name is empty, else fetched
NameOutcome_mut_failed(pdf_filename) ==
    IF pdf_filename = <<>> THEN "failed" ELSE "fetch"
NameOutcome(pdf_filename) ==
    IF pdf_filename = <<>> THEN "dropped" ELSE "fetch"

\* the index of the candidate handled after candidate i of n
NextCandidate_mut_break(i, n, failed) == IF failed THEN n + 1 ELSE i + 1
NextCandidate(i, n, failed) == i + 1

(***************************************************************************)
(* The results pages.                                                      *)
(***************************************************************************)
\* a dnb-search-result-item: its link attribute ("obj" with url, "nourl",
\* "malformed", "absent", or "nonobject" for JSON that is no object) and date
Item(link, url, date) == [link |-> link, url |-> url, date |-> date]

Art1 == Url(<<>>, <<"/", "x">>, <<>>)
Art2 == Url(<<>>, <<"/", "l">>, <<>>)
Date1 == <<"2", "0", "2", "1", "-", "0", "2">>

ArticleUrls == {urljoin(BASE_URL, Art1), urljoin(BASE_URL, Art2)}

\* a site: its results pages in order (past the last one a results page has
\* no items) and the page of each article
Site(results, page1, page2) ==
    [results |-> results,
     article |-> [u \in ArticleUrls |->
                    IF u = urljoin(BASE_URL, Art1) THEN page1 ELSE page2]]

\* the sites of the model
Sites ==
    { \* the second results page lists the articles of the first again
      Site(<< << Item("obj", Art1, Date1), Item("obj", Art2, <<>>) >>,
              << Item("obj", Art2, <<>>), Item("obj", Art1, Date1) >> >>,
           PageRelative, PageDownload),
      \* an unparsable link attribute, then new articles on both pages
      Site(<< << Item("malformed", NoUrl, Date1), Item("obj", Art2, Date1) >>,
              << Item("obj", Art1, Date1) >> >>,
           PageAbsolute, PageTwo),
      \* one article listed twice on a page; a page of items without URL
      Site(<< << Item("obj", Art2, Date1), Item("obj", Art2, Date1) >>,
              << Item("absent", NoUrl, <<>>), Item("nourl", NoUrl, Date1) >> >>,
           PageEmpty, PageTwice),
      \* a link attribute that is JSON but no object on the second page
      Site(<< << Item("obj", Art1, Date1) >>,
              << Item("nonobject", NoUrl, Date1), Item("obj", Art2, Date1) >> >>,
           PageLight, PageTwo),
      Site(<< << Item("obj", Art1, Date1), Item("obj", Art2, Date1) >> >>,
           PageQuery, PageEmpty),
      \* a second results page without a new article, a third with one
      Site(<< << Item("obj", Art1, Date1) >>,
              << Item("obj", Art1, Date1) >>,
              << Item("obj", Art2, Date1) >> >>,
           PageNoName, PageAbsolute),
      \* two results pages of items without a usable URL, then an article
      Site(<< << Item("nourl", NoUrl, Date1) >>,
              << Item("absent", NoUrl, <<>>), Item("malformed", NoUrl, <<>>) >>,
              << Item("obj", Art1, Date1) >> >>,
           PageEmpty, PageEmpty),
      \* one article, whose document has a name the store sanitizes
      Site(<< << Item("obj", Art1, Date1) >> >>, PageParen, PageEmpty),
      \* no results at all
      Site(<< >>, PageEmpty, PageEmpty) }

\* the items the locator finds on results page n of a site
ResultItems(st, n) ==
    IF n <= Len(st.results) THEN st.results[n] ELSE <<>>

\* the body the server sends for a URL
ServedBody(u) == IF u.path = PathA THEN <<"x", "y">> ELSE <<"x", "c">>

\* article_url of a result item, None when there is none
ArticleUrl(item) ==
    IF item.link = "obj" /\ Truthy(UrlStr(item.url))
    THEN urljoin(BASE_URL, item.url)
    ELSE NoUrl

\* json.loads gives a value without .get: AttributeError, which the loop
\* over result_items does not catch
ItemRaises(item) == item.link = "nonobject"

\* page_articles without the test against processed_article_urls
PageArticles_mut_nofilter(items, processed) ==
    LET idx == Indices(Len(items),
                       {i \in 1..Len(items) : ArticleUrl(items[i]) # NoUrl})
    IN  [k \in 1..Len(idx) |->
            [url |-> ArticleUrl(items[idx[k]]), date |-> items[idx[k]].date]]
\* page_articles: the items with a URL that is not in processed_article_urls
RECURSIVE PageArticles(_, _)
PageArticles(items, processed) ==
    IF items = <<>> THEN <<>>
    ELSE LET u == ArticleUrl(Head(items))
             rest == PageArticles(Tail(items), processed)
         IN  IF u = NoUrl \/ u \in processed THEN rest
             ELSE <<[url |-> u, date |-> Head(items).date]>> \o rest

(***************************************************************************)
(* The locator: find_elements_in_all_shadow_roots on a page forest.        *)
(***************************************************************************)
\* an element of a forest: its parent element (0 for the document), whether
\* it is a light-DOM child of the parent or a child of the parent's shadow
\* root, whether it owns a shadow root, and whether the selector matches it
Element(parent, via, host, match) ==
    [parent |-> parent, via |-> via, host |-> host, match |-> match]

\* the forests of n elements, element i at index i, parents first
ForestsOf(n) ==
    { f \in [1..n -> [parent : 0..(n - 1), via : {"light", "shadow"},
                      host : BOOLEAN, match : BOOLEAN]] :
        \A i \in 1..n :
            /\ f[i].parent < i
            /\ f[i].via = "shadow" =>
                  (f[i].parent >= 1 /\ f[f[i].parent].host) }

Forests == UNION {ForestsOf(n) : n \in 0..MaxNodes}

\* the nodes findInChildren is called on
Document == [kind |-> "document", id |-> 0]
ElementNode(n) == [kind |-> "element", id |-> n]
ShadowRoot(n) == [kind |-> "shadowRoot", id |-> n]

\* is element n among node.querySelectorAll('*'): a descendant of node in
\* node's own tree, shadow roots not entered
RECURSIVE Under(_, _, _)
Under(forest, n, node) ==
    LET p == forest[n].parent
    IN  IF forest[n].via = "shadow" THEN node = ShadowRoot(p)
        ELSE IF p = 0 THEN node = Document
        ELSE node = ElementNode(p) \/ Under(forest, p, node)

\* node.querySelectorAll(selector)
querySelectorAll(forest, node) ==
    Indices(Len(forest),
            {n \in 1..Len(forest) : Under(forest, n, node) /\ forest[n].match})

\* the children of node with a shadowRoot
HostsUnder(forest, node) ==
    Indices(Len(forest),
            {n \in 1..Len(forest) : Under(forest, n, node) /\ forest[n].host})

\* visited.has(node)
Visited_mut_never(seen, node) == FALSE
Visited(seen, node) == node \in seen

\* what the query of one shadow root adds to elements: nothing when the
\* query throws there (the catch inside the script)
Found_mut_light(forest, thr, h) ==
    IF h \in thr THEN <<>> ELSE querySelectorAll(forest, ElementNode(h))
Found(forest, thr, h) ==
    IF h \in thr THEN <<>> ELSE querySelectorAll(forest, ShadowRoot(h))

\* the calls findInChildren(node) makes after its query, in order
CallsOf(forest, node) ==
    LET hosts == HostsUnder(forest, node)
        calls == [k \in 1..Len(hosts) |-> ElementNode(hosts[k])]
    IN  IF node.kind = "element" THEN <<ShadowRoot(node.id)>> \o calls
        ELSE calls

\* scraper_dlz.py: findElementsInAllShadows(rootNode, selector), which has
\* no try around the query; raised tells that the script threw
RECURSIVE findElementsInAllShadows(_, _, _), ShadowsOfHosts(_, _, _)
findElementsInAllShadows(forest, thr, rootNode) ==
    ShadowsOfHosts(forest, thr, HostsUnder(forest, rootNode))
ShadowsOfHosts(forest, thr, hosts) ==
    IF hosts = <<>> THEN [raised |-> FALSE, results |-> <<>>]
    ELSE LET h == Head(hosts)
             nested == findElementsInAllShadows(forest, thr, ShadowRoot(h))
             rest == ShadowsOfHosts(forest, thr, Tail(hosts))
         IN  IF h \in thr \/ nested.raised \/ rest.raised
             THEN [raised |-> TRUE, results |-> <<>>]
             ELSE [raised |-> FALSE,
                   results |-> querySelectorAll(forest, ShadowRoot(h))
                                 \o nested.results \o rest.results]

\* scraper_dlz.py: find_elements_in_all_shadow_roots, [] when the script threw
find_elements_dlz(forest, thr) ==
    LET r == findElementsInAllShadows(forest, thr, Document)
    IN  IF r.raised THEN <<>> ELSE r.results

VARIABLES
    forest,                     \* the page the locator is run on
    throws,                     \* the hosts in whose shadow root the query throws
    stack,                      \* per call of findInChildren, its calls to come
    visited,
    elements,
    queried_roots,              \* the hosts whose shadow root was queried, in order
    locator                     \* "idle", "running", "returning", "done", "failed"

locator_vars ==
    <<forest, throws, stack, visited, elements, queried_roots, locator>>

(***************************************************************************)
(* organize_pdfs.py: the metadata files and the files of DOCS_DIR.         *)
(***************************************************************************)
\* an item of a metadata list: a JSON object or not, and what
\* item.get("downloaded_filename") and item.get("date") give (None when the
\* key is missing)
MetaItem(isdict, filename, date) ==
    [isdict |-> isdict, downloaded_filename |-> filename, date |-> date]

\* what a metadata_page_<n>.json file may hold: a JSON list, a single JSON
\* object, another JSON value, text that is no JSON, or bytes that are no
\* UTF-8 text
JsonList(items) == [kind |-> "list", data |-> items]
JsonDict(item) == [kind |-> "dict", data |-> <<item>>]
JsonScalar == [kind |-> "scalar", data |-> <<>>]
NotJson == [kind |-> "notjson", data |-> <<>>]
NotUtf8 == [kind |-> "notutf8", data |-> <<>>]

\* the result of a call: the value returned, or the exception it raised
Loaded(value) == [raised |-> FALSE, value |-> value]
LoadRaises == [raised |-> TRUE, value |-> <<>>]

\* load_metadata_file(file_path) for a file that exists
load_metadata_file(file) ==
    CASE file.kind = "list" -> Loaded(file.data)
      [] file.kind = "dict" -> Loaded(file.data)
      [] file.kind = "scalar" -> Loaded(<<>>)
      [] file.kind = "notjson" -> Loaded(<<>>)   \* json.JSONDecodeError
      [] OTHER -> LoadRaises                        \* UnicodeDecodeError

\* all_data after the loop over found_files: the lists loaded, in the order
\* of the files; an exception of load_metadata_file is not caught
LoadAll_mut_first_only(found_files) ==
    IF found_files = <<>> THEN Loaded(<<>>)
    ELSE load_metadata_file(Head(found_files))
RECURSIVE LoadAll(_)
LoadAll(found_files) ==
    IF found_files = <<>> THEN Loaded(<<>>)
    ELSE LET data == load_metadata_file(Head(found_files))
             rest == LoadAll(Tail(found_files))
         IN  IF data.raised \/ rest.raised THEN LoadRaises
             ELSE Loaded(data.value \o rest.value)

\* date_str.split('-')[0]: the part of the date before its first '-'
RECURSIVE FirstDash(_, _)
FirstDash(s, i) ==
    IF i > Len(s) THEN i
    ELSE IF s[i] = "-" THEN i
    ELSE FirstDash(s, i + 1)
YearPart(date_str) == SubSeq(date_str, 1, FirstDash(date_str, 1) - 1)

\* year.isdigit()
IsDigit(s) == s # <<>> /\ \A i \in 1..Len(s) : s[i] \in DigitChars

\* the year is taken when "not year.isdigit() or len(year) != 4" is false
YearOk_mut_anylength(year) == IsDigit(year)
YearOk(year) == IsDigit(year) /\ Len(year) = 4

\* a file of DOCS_DIR: DOCS_DIR / name, or DOCS_DIR / year / name
Path(dir, name) == [dir |-> dir, name |-> name]
SourcePath(pdf_filename) == Path(<<>>, pdf_filename)
DestinationPath(year, pdf_filename) == Path(year, pdf_filename)

\* what one pass of the loop over all_metadata does with item, the files of
\* DOCS_DIR being tree and mkdir and shutil.move succeeding (ok) or raising
\* OSError: the branch taken, the files afterwards, and what is added to
\* moved_files, skipped_files and processed_filenames
Pass(outcome, tree, moved, skipped, processed) ==
    [outcome |-> outcome, tree |-> tree, moved |-> moved, skipped |-> skipped,
     processed |-> processed]

\* the two tests on the files: "if not source_pdf_path.exists()" and
\* "if destination_pdf_path.exists()"
MoveCheck_mut_none(tree, source_pdf_path, destination_pdf_path) == "move"
MoveCheck(tree, source_pdf_path, destination_pdf_path) ==
    IF source_pdf_path \notin tree THEN "no_source"
    ELSE IF destination_pdf_path \in tree THEN "collision"
    ELSE "move"

OrganizeItem(item, tree, processed_filenames, ok) ==
    LET pdf_filename == item.downloaded_filename
        date_str == item.date
        year == YearPart(date_str)
        source_pdf_path == SourcePath(pdf_filename)
        destination_pdf_path == DestinationPath(year, pdf_filename)
    IN  IF ~item.isdict THEN Pass("not_dict", tree, 0, 0, {})
        ELSE IF ~Truthy(pdf_filename)
        THEN Pass("no_filename", tree, 0, 0, {})
        ELSE IF pdf_filename \in processed_filenames
        THEN Pass("duplicate", tree, 0, 0, {})
        ELSE IF ~Truthy(date_str)
        THEN Pass("no_date", tree, 0, 1, {pdf_filename})
        ELSE IF ~YearOk(year)
        THEN Pass("bad_date", tree, 0, 1, {pdf_filename})
        ELSE IF MoveCheck(tree, source_pdf_path, destination_pdf_path)
                    = "no_source"
        THEN Pass("no_source", tree, 0, 1, {pdf_filename})
        ELSE IF ~ok
        THEN Pass("os_error", tree, 0, 1, {pdf_filename})
        ELSE IF MoveCheck(tree, source_pdf_path, destination_pdf_path)
                    = "collision"
        THEN Pass("collision", tree, 0, 1, {pdf_filename})
        ELSE Pass("moved",
                  (tree \ {source_pdf_path}) \cup {destination_pdf_path},
                  1, 0, {pdf_filename})

\* concatenate_metadata_files() with DOCS_DIR present or not, found_files
\* the metadata_page_*.json files in glob order and the write of the output
\* succeeding or not: how it ends (by an exception, or with its last
\* message) and the output file afterwards
concatenate_metadata_files(dir_exists, found_files, out, ok) ==
    IF ~dir_exists THEN [ends |-> "no_dir", out |-> out]
    ELSE IF found_files = <<>> THEN [ends |-> "no_files", out |-> out]
    ELSE LET all_data == LoadAll(found_files)
         IN  IF all_data.raised THEN [ends |-> "raised", out |-> out]
             ELSE IF ok
                  THEN [ends |-> "written",
                        out |-> [written |-> TRUE, data |-> all_data.value]]
                  ELSE [ends |-> "write_error", out |-> out]

VARIABLES
    docs_dir,                   \* DOCS_DIR exists and is a directory
    metadata_files,             \* the metadata_page_*.json files, in glob order
    tree,                       \* the other files of DOCS_DIR
    combined_file,              \* all_metadata_combined.json
    util,                       \* where the utility is
    organize_metadata,          \* all_metadata of organize_pdfs
    item_idx,                   \* position of the loop over all_metadata
    moved_files,
    skipped_files,
    processed_filenames,
    passes,                     \* per pass of the loop: item, files before, branch
    earlier_runs                \* per organize_pdfs run that ended before this
                                \* one: the files after it, the files it moved,
                                \* and whether a move of it failed

organize_vars ==
    <<docs_dir, metadata_files, tree, combined_file, util, organize_metadata,
      item_idx, moved_files, skipped_files, processed_filenames, passes,
      earlier_runs>>

(***************************************************************************)
(* The paths of download_pdf.                                              *)
(***************************************************************************)
\* where os.path.join(DOCS_DIR, safe_filename) lies: the parent of DOCS_DIR
\* for '..', DOCS_DIR itself for '.' and for the empty name, else the file
\* of that name in DOCS_DIR
Resolved(safe_filename) ==
    IF safe_filename = <<".", ".">> THEN "parent"
    ELSE IF safe_filename \in {<<>>, <<".">>} THEN "docs_dir"
    ELSE "file"

\* filepath and md5_filepath of download_pdf(pdf_url, filename)
Filepaths(filename) ==
    [filepath |-> SafeFilename(filename),
     md5_filepath |-> Md5Path(SafeFilename(filename)),
     resolved |-> Resolved(SafeFilename(filename))]

VARIABLES
    desired_filename,           \* the filename argument of download_pdf
    filepaths                   \* the paths download_pdf works on

names_vars == <<desired_filename, filepaths>>

NoPaths == [filepath |-> <<>>, md5_filepath |-> <<>>, resolved |-> "none"]

NamesIdle == desired_filename = <<>> /\ filepaths = NoPaths

(***************************************************************************)
(* The crawl: NationalbankenScraper.run() inside main()'s with block.      *)
(***************************************************************************)
VARIABLES
    site,                       \* the site crawled
    nfaults,                    \* failures and interrupts so far
    pc,                         \* where the run is
    driver,                     \* self.driver: "none" or "up"
    max_pages,                  \* MAX_PAGES_TO_SCRAPE
    page_num,
    result_items,
    page_articles,
    found_new_articles_on_page,
    art_idx,                    \* position of the loop over page_articles
    page,                       \* the article page the driver shows
    queried,                    \* the discovery queries made on this visit
    pdf_links,
    custom_pdf_links,
    all_pdf_links,
    link_idx,                   \* position of the loop over all_pdf_links
    handled,                    \* what became of each candidate of this visit
    page_metadata,
    all_metadata,
    processed_article_urls,
    navigated,                  \* the article visits: URL, results page, wait
    loaded,                     \* the results pages loaded, by number
    searched,                   \* the searches for result items, and how
                                \* each ended
    page_batches,               \* the successive values of page_metadata
    page_files,                 \* metadata_page_<n>.json
    save_log,                   \* the writes save_metadata_per_page tried
    final_file                  \* docs_metadata.json

crawl_vars ==
    <<site, nfaults, pc, driver, max_pages, page_num, result_items, page_articles,
      found_new_articles_on_page, art_idx, page, queried, pdf_links,
      custom_pdf_links, all_pdf_links, link_idx, handled, page_metadata,
      all_metadata, processed_article_urls, navigated, loaded, searched,
      page_batches,
      page_files, save_log,
      final_file, locator_vars, organize_vars, names_vars>>

vars == <<store_vars, crawl_vars>>

\* the names and paths of the store
CrawlFilenames == {Basename(PathA), Basename(PathB), Basename(PathParen)}
StoreNames ==
    {SafeFilename(f) : f \in StoreFilenames \cup CrawlFilenames}
StorePaths == StoreNames \cup {Md5Path(n) : n \in StoreNames}

EmptyStore == [p \in StorePaths |-> Absent]

\* the store a run starts with: empty, or holding a file of an earlier run
InitialStores ==
    { EmptyStore,
      [EmptyStore EXCEPT
          ![Basename(PathA)] = File(<<"x", "y">>),
          ![Md5Path(Basename(PathA))] = File(Md5Hex(<<"x", "y">>))] }

NotWritten == [written |-> FALSE, data |-> <<>>]
Written(data) == [written |-> TRUE, data |-> data]

\* no locator run under way
LocatorIdle ==
    /\ forest = <<>>
    /\ throws = {}
    /\ stack = <<>>
    /\ visited = {}
    /\ elements = <<>>
    /\ queried_roots = <<>>
    /\ locator = "idle"

\* neither utility of organize_pdfs.py under way
OrganizeIdle ==
    /\ docs_dir = TRUE
    /\ metadata_files = <<>>
    /\ tree = {}
    /\ combined_file = NotWritten
    /\ util = "idle"
    /\ organize_metadata = <<>>
    /\ item_idx = 1
    /\ moved_files = 0
    /\ skipped_files = 0
    /\ processed_filenames = {}
    /\ passes = <<>>
    /\ earlier_runs = <<>>

\* the state of a scraper before run()
InitCrawl ==
    /\ disk \in InitialStores
    /\ call = NoCall
    /\ quiet = TRUE
    /\ ncalls = 0
    /\ nexternal = 0
    /\ completed = {}
    /\ site \in Sites
    /\ nfaults = 0
    /\ pc = "enter"
    /\ driver = "none"
    /\ max_pages \in 1..MaxPages
    /\ page_num = 1
    /\ result_items = <<>>
    /\ page_articles = <<>>
    /\ found_new_articles_on_page = FALSE
    /\ art_idx = 1
    /\ page = <<>>
    /\ queried = <<>>
    /\ pdf_links = <<>>
    /\ custom_pdf_links = <<>>
    /\ all_pdf_links = <<>>
    /\ link_idx = 1
    /\ handled = <<>>
    /\ page_metadata = <<>>
    /\ all_metadata = <<>>
    /\ processed_article_urls = {}
    /\ navigated = <<>>
    /\ loaded = <<>>
    /\ searched = <<>>
    /\ page_batches = <<>>
    /\ page_files = [n \in 1..MaxPages |-> NotWritten]
    /\ save_log = <<>>
    /\ final_file = NotWritten

Init == LocatorIdle /\ OrganizeIdle /\ NamesIdle /\ InitCrawl

visit_vars ==
    <<page, queried, pdf_links, custom_pdf_links, all_pdf_links, link_idx,
      handled>>
page_vars ==
    <<page_num, result_items, page_articles, found_new_articles_on_page,
      art_idx>>
metadata_vars == <<page_metadata, all_metadata, page_batches>>
file_vars == <<page_files, save_log, final_file>>
fixed_vars == <<site, max_pages, locator_vars, organize_vars, names_vars>>
seen_vars == <<processed_article_urls, navigated, loaded, searched>>

\* what the environment may do to a step: nothing, or one of kinds while
\* failures are left
Faults(kinds) == {"none"} \cup (IF nfaults < MaxFaults THEN kinds ELSE {})
Counted(fault) == IF fault \in {"none", "ok"} THEN nfaults ELSE nfaults + 1

\* __enter__: init_selenium_driver, which leaves self.driver None on failure
Enter ==
    /\ pc = "enter"
    /\ \E fault \in Faults({"no_driver"}) :
        /\ driver' = IF fault = "none" THEN "up" ELSE "none"
        /\ nfaults' = Counted(fault)
    /\ pc' = "run"
    /\ UNCHANGED <<store_vars, fixed_vars, page_vars, visit_vars,
                   metadata_vars, seen_vars, file_vars>>

\* "if not self.driver: return []": where run() goes after the test
DriverCheck_mut_proceed(d) == "loop"
DriverCheck(d) == IF d = "up" THEN "loop" ELSE "exit"

\* run() up to the while loop: return [] without a driver
Start ==
    /\ pc = "run"
    /\ pc' = DriverCheck(driver)
    /\ UNCHANGED <<store_vars, fixed_vars, nfaults, driver, page_vars,
                   visit_vars, metadata_vars, seen_vars,
                   file_vars>>

\* the head of the while loop: the page cap
PageCap ==
    /\ pc = "loop"
    /\ page_num > max_pages
    /\ pc' = "exit"
    /\ UNCHANGED <<store_vars, fixed_vars, nfaults, driver, page_vars,
                   visit_vars, metadata_vars, seen_vars,
                   file_vars>>

\* what find_elements_in_all_shadow_roots returns: the elements found, and
\* an empty list when its script raised or timed out
SearchResult_mut_partial(fault, items) == items
SearchResult(fault, items) ==
    IF fault \in {"script_error", "script_timeout"} THEN <<>> ELSE items

\* one search for result items: the results page and how the script ended
Search(n, fault) ==
    [page |-> n, outcome |-> IF fault = "none" THEN "returned" ELSE fault]

\* load results page page_num, find its items and extract page_articles;
\* "raised" is an exception of driver.get; "script_error" and
\* "script_timeout" are the two ways the search for the items fails
LoadResultsPage ==
    /\ pc = "loop"
    /\ page_num <= max_pages
    /\ \E fault \in Faults({"raised", "script_error", "script_timeout"}) :
        LET items == SearchResult(fault, ResultItems(site, page_num))
        IN  /\ nfaults' = Counted(fault)
            /\ searched' = IF fault = "raised" THEN searched
                           ELSE Append(searched, Search(page_num, fault))
            /\ IF fault = "raised"
               THEN /\ pc' = "exit"
                    /\ UNCHANGED <<result_items, page_articles,
                                   found_new_articles_on_page, art_idx,
                                   metadata_vars>>
               ELSE /\ result_items' = items
                    /\ IF items = <<>>
                       THEN /\ pc' = "exit"
                            /\ UNCHANGED <<page_articles,
                                           found_new_articles_on_page,
                                           art_idx, metadata_vars>>
                       ELSE IF \E i \in 1..Len(items) : ItemRaises(items[i])
                       THEN \* page_articles, found_new_articles_on_page and
                            \* page_metadata were reset before the loop
                            \* over the items raised
                            /\ pc' = "exit"
                            /\ page_articles' = <<>>
                            /\ found_new_articles_on_page' = FALSE
                            /\ page_metadata' = <<>>
                            /\ page_batches' = Append(page_batches, <<>>)
                            /\ UNCHANGED <<art_idx, all_metadata>>
                       ELSE /\ pc' = "visit"
                            /\ page_articles' =
                                   PageArticles(items, processed_article_urls)
                            /\ found_new_articles_on_page' =
                                   (PageArticles(items, processed_article_urls)
                                        # <<>>)
                            /\ art_idx' = 1
                            /\ page_metadata' = <<>>
                            /\ page_batches' = Append(page_batches, <<>>)
                            /\ UNCHANGED all_metadata
    /\ loaded' = Append(loaded, page_num)
    /\ UNCHANGED <<store_vars, fixed_vars, driver, page_num, visit_vars,
                   processed_article_urls, navigated, file_vars>>

\* one article visit: the URL, the results page it was listed on, and how
\* the navigation and the wait ended ("none": the page became ready)
Visit(url, n, wait) == [url |-> url, page |-> n, wait |-> wait]

\* what an outcome of navigation and wait does to the visit: any exception,
\* the timeout of the wait included, leaves the loops of run()
WaitOutcome(fault) == IF fault = "none" THEN "discover" ELSE "abort"

\* the head of one pass of the loop over page_articles: mark the URL
\* processed, load the article, wait, analyse, discover and merge the links;
\* "raised" is an exception of the navigation or of a script, "timeout" the
\* TimeoutException of WebDriverWait.until; neither is caught inside the loop
VisitArticle ==
    /\ pc = "visit"
    /\ art_idx <= Len(page_articles)
    /\ processed_article_urls' =
           processed_article_urls \cup {page_articles[art_idx].url}
    /\ UNCHANGED <<loaded, searched>>
    /\ \E fault \in Faults({"raised", "timeout"}) :
        LET pg == site.article[page_articles[art_idx].url]
        IN  /\ nfaults' = Counted(fault)
            /\ navigated' =
                   Append(navigated, Visit(page_articles[art_idx].url,
                                           page_num, fault))
            /\ IF WaitOutcome(fault) = "abort"
               THEN /\ pc' = "exit"
                    /\ UNCHANGED visit_vars
               ELSE /\ pc' = "links"
                    /\ page' = pg
                    /\ pdf_links' = PatternSide(pg).links
                    /\ queried' = Append(PatternSide(pg).queried, "custom")
                    /\ custom_pdf_links' = CustomLinks(pg)
                    /\ all_pdf_links' =
                           MergeLinks(PatternSide(pg).links, CustomLinks(pg))
                    /\ link_idx' = 1
                    /\ handled' = <<>>
    /\ UNCHANGED <<store_vars, fixed_vars, driver, page_vars, metadata_vars,
                   file_vars>>

\* the DownloadRecord of a fetched candidate
Metadata(article, full_pdf_url, pdf_filename, md5_hash) ==
    [source_page_url |-> article.url, pdf_url |-> full_pdf_url,
     downloaded_filename |-> pdf_filename, date |-> article.date,
     file_md5 |-> md5_hash]

Handled(link, outcome) == [link |-> link, outcome |-> outcome]

\* one pass of the loop over all_pdf_links; "raised" is an exception while
\* the href is read, the other faults are those of the fetch
ProcessLink ==
    /\ pc = "links"
    /\ link_idx <= Len(all_pdf_links)
    /\ LET pdf_link == all_pdf_links[link_idx]
           pdf_href == pdf_link.href
           article == page_articles[art_idx]
           n == Len(all_pdf_links)
       IN  \E full_pdf_url \in {urljoin(BASE_URL, pdf_href)} :
           \E pdf_filename \in {Basename(full_pdf_url.path)} :
           \E fault \in Faults({"raised"} \cup (FetchOutcomes \ {"ok"})) :
            IF fault = "raised"
            THEN \* caught by the except of this pass
                 /\ handled' = Append(handled, Handled(pdf_link, "raised"))
                 /\ link_idx' = NextCandidate(link_idx, n, TRUE)
                 /\ nfaults' = Counted(fault)
                 /\ UNCHANGED <<store_vars, metadata_vars>>
            ELSE IF ~AcceptedForFetch(pdf_href, page[pdf_link.elem].download)
            THEN /\ fault = "none"
                 /\ handled' = Append(handled, Handled(pdf_link, "rejected"))
                 /\ link_idx' = NextCandidate(link_idx, n, FALSE)
                 /\ UNCHANGED <<store_vars, metadata_vars, nfaults>>
            ELSE IF NameOutcome(pdf_filename) # "fetch"
            THEN /\ fault = "none"
                 /\ handled' = Append(handled,
                                      Handled(pdf_link,
                                              NameOutcome(pdf_filename)))
                 /\ link_idx' = NextCandidate(link_idx, n, FALSE)
                 /\ UNCHANGED <<store_vars, metadata_vars, nfaults>>
            ELSE LET outcome == IF fault = "none" THEN "ok" ELSE fault
                     body == ServedBody(full_pdf_url)
                 IN  \E r \in {download_pdf(disk, full_pdf_url, pdf_filename,
                                            body, outcome, CutAt)} :
                     LET rec == Metadata(article, full_pdf_url, pdf_filename,
                                         r.md5)
                     IN
                     /\ fault # "none" => r.net
                     /\ nfaults' = Counted(fault)
                     /\ DoDownload(full_pdf_url, pdf_filename, body, outcome,
                                   CutAt)
                     /\ UNCHANGED nexternal
                     /\ IF RecordMade(r.md5)
                        THEN /\ all_metadata' =
                                    AppendRecord(all_metadata, page_metadata,
                                                 rec).all
                             /\ page_metadata' =
                                    AppendRecord(all_metadata, page_metadata,
                                                 rec).batch
                             /\ page_batches' =
                                    [page_batches EXCEPT ![Len(page_batches)] =
                                        page_metadata']
                             /\ handled' =
                                    Append(handled, Handled(pdf_link, "recorded"))
                             /\ link_idx' = NextCandidate(link_idx, n, FALSE)
                        ELSE /\ UNCHANGED metadata_vars
                             /\ handled' =
                                    Append(handled, Handled(pdf_link, "failed"))
                             /\ link_idx' = NextCandidate(link_idx, n, TRUE)
    /\ UNCHANGED <<fixed_vars, pc, driver, page_vars, page, queried, pdf_links,
                   custom_pdf_links, all_pdf_links, seen_vars,
                   file_vars>>

\* the loop over all_pdf_links is through: on to the next article
NextArticle ==
    /\ pc = "links"
    /\ link_idx > Len(all_pdf_links)
    /\ pc' = "visit"
    /\ art_idx' = art_idx + 1
    /\ UNCHANGED <<store_vars, fixed_vars, nfaults, driver, page_num,
                   result_items, page_articles, found_new_articles_on_page,
                   visit_vars, metadata_vars, seen_vars,
                   file_vars>>

\* save_metadata_per_page: nothing for an empty batch, and a failed write
\* is only reported
save_metadata_per_page_mut_first_page(files, metadata, n, ok) ==
    IF metadata # <<>> /\ ok THEN [files EXCEPT ![1] = Written(metadata)]
    ELSE files
save_metadata_per_page(files, metadata, n, ok) ==
    IF metadata # <<>> /\ ok THEN [files EXCEPT ![n] = Written(metadata)]
    ELSE files

\* "No new articles found on this page, stopping pagination."
StopPagination_mut_never(found_new, n) == FALSE
StopPagination_mut_first_too(found_new, n) == ~found_new
StopPagination(found_new, n) == ~found_new /\ n > 1

\* page_num += 1
Advance_mut_stay(n) == n
Advance(n) == n + 1

\* the writes tried by save_metadata_per_page, with the one of this call
SaveLog(log, metadata, n, ok) ==
    IF metadata = <<>> THEN log ELSE Append(log, [page |-> n, ok |-> ok])

\* how save_metadata_per_page ends: a failed write is caught and reported
SaveOutcome_mut_raise(ok) == IF ok THEN "saved" ELSE "raised"
SaveOutcome(ok) == IF ok THEN "saved" ELSE "reported"

\* the end of one pass of the while loop
FinishPage ==
    /\ pc = "visit"
    /\ art_idx > Len(page_articles)
    /\ \E fault \in Faults(IF page_metadata # <<>> THEN {"write_failed"}
                           ELSE {}) :
        /\ page_files' = save_metadata_per_page(page_files, page_metadata,
                                                page_num, fault = "none")
        /\ save_log' = SaveLog(save_log, page_metadata, page_num,
                               fault = "none")
        /\ nfaults' = Counted(fault)
        /\ IF SaveOutcome(fault = "none") = "raised"
           THEN pc' = "exit" /\ UNCHANGED page_num
           ELSE IF StopPagination(found_new_articles_on_page, page_num)
           THEN pc' = "exit" /\ UNCHANGED page_num
           ELSE pc' = "loop" /\ page_num' = Advance(page_num)
    /\ UNCHANGED <<store_vars, fixed_vars, driver, result_items,
                   page_articles, found_new_articles_on_page, art_idx,
                   visit_vars, metadata_vars, seen_vars,
                   final_file>>

\* KeyboardInterrupt inside the try of run()
Interrupt ==
    /\ pc \in {"loop", "visit", "links"}
    /\ nfaults < MaxFaults
    /\ nfaults' = nfaults + 1
    /\ pc' = "exit"
    /\ UNCHANGED <<store_vars, fixed_vars, driver, page_vars, visit_vars,
                   metadata_vars, seen_vars, file_vars>>

\* __exit__: close the driver and then _save_final_metadata; "interrupt" is
\* a KeyboardInterrupt while driver.quit() runs, which leaves __exit__ before
\* _save_final_metadata is called
Exit ==
    /\ pc = "exit"
    /\ pc' = "done"
    /\ \E fault \in Faults((IF all_metadata # <<>> THEN {"write_failed"}
                            ELSE {})
                           \cup (IF driver = "up" THEN {"interrupt"}
                                 ELSE {})) :
        /\ driver' = IF fault = "interrupt" THEN driver ELSE "none"
        /\ final_file' = IF all_metadata # <<>> /\ fault = "none"
                         THEN Written(all_metadata)
                         ELSE final_file
        /\ nfaults' = Counted(fault)
    /\ UNCHANGED <<store_vars, fixed_vars, page_vars, visit_vars,
                   metadata_vars, seen_vars, page_files, save_log>>

Next ==
    \/ Enter
    \/ Start
    \/ PageCap
    \/ LoadResultsPage
    \/ VisitArticle
    \/ ProcessLink
    \/ NextArticle
    \/ FinishPage
    \/ Interrupt
    \/ Exit

Spec == Init /\ [][Next]_vars

\* every navigation, wait, script and fetch returns or raises, so that the
\* run always takes its next step
SpecFair == Spec /\ WF_vars(Next)

(***************************************************************************)
(* The content store alone: download_pdf calls on a store that other       *)
(* processes may modify.                                                   *)
(***************************************************************************)
DownloadCall ==
    /\ ncalls < MaxCalls
    /\ \E u \in StoreUrls, f \in StoreFilenames, outcome \in FetchOutcomes :
        DoDownload(u, f, ServedBody(u), outcome, CutAt)
    /\ UNCHANGED <<nexternal, crawl_vars>>

ExternalModify ==
    /\ nexternal < MaxExternal
    /\ \E f \in StoreFilenames, side \in BOOLEAN, st \in ExternalStates :
        LET path == IF side THEN Md5Path(SafeFilename(f)) ELSE SafeFilename(f)
        IN  /\ disk[path] # st
            /\ disk' = [disk EXCEPT ![path] = st]
    /\ quiet' = FALSE
    /\ nexternal' = nexternal + 1
    /\ UNCHANGED <<call, ncalls, completed, crawl_vars>>

NextStore == DownloadCall \/ ExternalModify

\* the store empty and no crawl under way
InitStore ==
    /\ Init
    /\ disk = EmptyStore
    /\ site = Site(<< >>, PageEmpty, PageEmpty)
    /\ max_pages = 1

SpecStore == InitStore /\ [][NextStore]_vars

(***************************************************************************)
(* The locator alone: one call of find_elements_in_all_shadow_roots.       *)
(***************************************************************************)
\* findInChildren(node) for a node not visited before: mark it, query its
\* shadow root if it has one, and line up the calls it makes
FindInChildren ==
    /\ locator = "running"
    /\ stack # <<>>
    /\ Head(stack) # <<>>
    /\ LET node == Head(Head(stack))
       IN  /\ ~Visited(visited, node)
           /\ visited' = visited \cup {node}
           /\ IF node.kind = "element"
              THEN /\ elements' = elements \o Found(forest, throws, node.id)
                   /\ queried_roots' = Append(queried_roots, node.id)
              ELSE UNCHANGED <<elements, queried_roots>>
           /\ stack' = <<CallsOf(forest, node), Tail(Head(stack))>>
                           \o Tail(stack)
    /\ UNCHANGED <<forest, throws, locator, store_vars, organize_vars, names_vars,
                   site,
                   max_pages,
                   nfaults, pc, driver, page_vars, visit_vars, metadata_vars,
                   seen_vars, file_vars>>

\* findInChildren(node) for a visited node returns at once
SkipVisited ==
    /\ locator = "running"
    /\ stack # <<>>
    /\ Head(stack) # <<>>
    /\ Visited(visited, Head(Head(stack)))
    /\ stack' = <<Tail(Head(stack))>> \o Tail(stack)
    /\ UNCHANGED <<forest, throws, visited, elements, queried_roots, locator,
                   store_vars, organize_vars, names_vars,
                   site,
                   max_pages, nfaults, pc, driver, page_vars,
                   visit_vars, metadata_vars, seen_vars,
                   file_vars>>

\* a call of findInChildren has made all its calls and returns; the
\* outermost one ends the script
ReturnFromCall ==
    /\ locator = "running"
    /\ stack # <<>>
    /\ Head(stack) = <<>>
    /\ stack' = Tail(stack)
    /\ locator' = IF Tail(stack) = <<>> THEN "returning" ELSE "running"
    /\ UNCHANGED <<forest, throws, visited, elements, queried_roots,
                   store_vars, organize_vars, names_vars,
                   site,
                   max_pages, nfaults, pc, driver, page_vars,
                   visit_vars, metadata_vars, seen_vars,
                   file_vars>>

\* execute_script returns elements
ScriptReturns ==
    /\ locator = "returning"
    /\ locator' = "done"
    /\ UNCHANGED <<forest, throws, stack, visited, elements, queried_roots,
                   store_vars, organize_vars, names_vars,
                   site,
                   max_pages, nfaults, pc, driver, page_vars,
                   visit_vars, metadata_vars, seen_vars,
                   file_vars>>

\* execute_script raises (script timeout, lost session) and the except
\* clauses return []; whenever the script stops, what it collected is lost,
\* so the step is taken where the script would have returned
ScriptRaises ==
    /\ locator = "returning"
    /\ locator' = "failed"
    /\ UNCHANGED <<forest, throws, stack, visited, elements, queried_roots,
                   store_vars, organize_vars, names_vars,
                   site,
                   max_pages, nfaults, pc, driver, page_vars,
                   visit_vars, metadata_vars, seen_vars,
                   file_vars>>

\* what find_elements_in_all_shadow_roots returns
Returned == IF locator = "done" THEN elements ELSE <<>>

NextLocator ==
    \/ FindInChildren
    \/ SkipVisited
    \/ ReturnFromCall
    \/ ScriptReturns
    \/ ScriptRaises

\* findInChildren(document) on any forest, the query throwing in at most
\* MaxThrows shadow roots
InitLocator ==
    /\ InitCrawl
    /\ OrganizeIdle
    /\ NamesIdle
    /\ disk = EmptyStore
    /\ site = Site(<< >>, PageEmpty, PageEmpty)
    /\ max_pages = 1
    /\ forest \in Forests
    /\ throws \in {t \in SUBSET {n \in 1..Len(forest) : forest[n].host} :
                      Cardinality(t) <= MaxThrows}
    /\ stack = << <<Document>> >>
    /\ visited = {}
    /\ elements = <<>>
    /\ queried_roots = <<>>
    /\ locator = "running"

\* the script and the driver always take their next step
SpecLocator ==
    InitLocator /\ [][NextLocator]_vars /\ WF_vars(NextLocator)


(***************************************************************************)
(* organize_pdfs.py: concatenate_metadata_files and organize_pdfs.         *)
(***************************************************************************)
rest_vars == <<site, nfaults, pc, driver, max_pages, page_vars, visit_vars,
               metadata_vars, seen_vars, file_vars, locator_vars, names_vars>>
idle_vars == <<store_vars, rest_vars>>

\* one call of concatenate_metadata_files()
Concatenate ==
    /\ util = "concat"
    /\ \E ok \in BOOLEAN :
        LET r == concatenate_metadata_files(docs_dir, metadata_files,
                                            combined_file, ok)
        IN  /\ combined_file' = r.out
            /\ util' = r.ends
    /\ UNCHANGED <<docs_dir, metadata_files, tree, organize_metadata, item_idx,
                   moved_files, skipped_files, processed_filenames, passes,
                   earlier_runs, idle_vars>>

\* organize_pdfs() up to its loop: load the metadata files, and return when
\* there is no metadata or no DOCS_DIR
OrganizeLoad ==
    /\ util = "organize"
    /\ LET loaded_all == IF docs_dir THEN LoadAll(metadata_files)
                         ELSE Loaded(<<>>)
       IN  IF loaded_all.raised
           THEN util' = "raised" /\ UNCHANGED organize_metadata
           ELSE /\ organize_metadata' = loaded_all.value
                /\ util' = IF loaded_all.value = <<>> \/ ~docs_dir
                           THEN "done" ELSE "loop"
    /\ UNCHANGED <<docs_dir, metadata_files, tree, combined_file, item_idx,
                   moved_files, skipped_files, processed_filenames, passes,
                   earlier_runs, idle_vars>>

\* a move that leaves the file in the store as well
MovedOut_mut_stays(d, before, after) == d
\* the store of download_pdf after files were moved out of DOCS_DIR
MovedOut(d, before, after) ==
    [p \in DOMAIN d |->
        IF SourcePath(p) \in before \ after THEN Absent ELSE d[p]]

\* one pass of the loop over all_metadata
OrganizeRecord ==
    /\ util = "loop"
    /\ item_idx <= Len(organize_metadata)
    /\ \E ok \in BOOLEAN :
        LET item == organize_metadata[item_idx]
            r == OrganizeItem(item, tree, processed_filenames, ok)
        IN  /\ tree' = r.tree
            /\ disk' = MovedOut(disk, tree, r.tree)
            /\ quiet' = (quiet /\ r.tree = tree)
            /\ moved_files' = moved_files + r.moved
            /\ skipped_files' = skipped_files + r.skipped
            /\ processed_filenames' = processed_filenames \cup r.processed
            /\ passes' = Append(passes, [item |-> item, tree |-> tree,
                                         outcome |-> r.outcome])
    /\ item_idx' = item_idx + 1
    /\ UNCHANGED <<docs_dir, metadata_files, combined_file, util,
                   organize_metadata, earlier_runs, call, ncalls, nexternal,
                   completed, rest_vars>>

\* the loop is through: "PDF organization complete."
OrganizeDone ==
    /\ util = "loop"
    /\ item_idx > Len(organize_metadata)
    /\ util' = "done"
    /\ UNCHANGED <<docs_dir, metadata_files, tree, combined_file,
                   organize_metadata, item_idx, moved_files, skipped_files,
                   processed_filenames, passes, earlier_runs, idle_vars>>

\* what is kept of a run of organize_pdfs that ended
Run(files, moved, ps) ==
    [tree |-> files, moved |-> moved,
     failed |-> \E i \in 1..Len(ps) : ps[i].outcome = "os_error"]

\* organize_pdfs() is run once more, on the files and the metadata as the
\* run before left them
OrganizeAgain ==
    /\ util = "done"
    /\ Len(earlier_runs) < MaxRuns - 1
    /\ earlier_runs' = Append(earlier_runs, Run(tree, moved_files, passes))
    /\ util' = "organize"
    /\ organize_metadata' = <<>>
    /\ item_idx' = 1
    /\ moved_files' = 0
    /\ skipped_files' = 0
    /\ processed_filenames' = {}
    /\ passes' = <<>>
    /\ UNCHANGED <<docs_dir, metadata_files, tree, combined_file, idle_vars>>

NextOrganize ==
    OrganizeLoad \/ OrganizeRecord \/ OrganizeDone \/ OrganizeAgain

\* the sequences over S of length n at most
SeqsUpTo(S, n) == UNION {[1..k -> S] : k \in 0..n}

\* file names and dates of the records
NameA == <<"a", ".", "p", "d", "f">>
NameB == <<"b", ".", "p", "d", "f">>
DateIso ==
    <<"2", "0", "2", "1", "-", "0", "2", "-", "1", "2", "T", "0", "0", ":",
      "0", "0", ":", "0", "0", ".", "0", "0", "0", "Z">>
NotADate == <<"n", "o", "t", "-", "a", "-", "d", "a", "t", "e">>
DateFiveDigits == <<"2", "0", "2", "1", "5", "-", "0", "1">>
DateThreeDigits == <<"2", "0", "2", "-", "1">>
DateNoDash == <<"2", "0", "2", "1">>
Year2021 == <<"2", "0", "2", "1">>

\* the items of the metadata of the model
ItemA == MetaItem(TRUE, NameA, DateIso)
ItemB == MetaItem(TRUE, NameB, DateIso)
OrganizeItems ==
    { ItemA, ItemB,
      MetaItem(TRUE, NameA, <<>>),
      MetaItem(TRUE, NameA, None),
      MetaItem(TRUE, NameA, NotADate),
      MetaItem(TRUE, NameA, DateFiveDigits),
      MetaItem(TRUE, NameB, DateThreeDigits),
      MetaItem(TRUE, NameB, DateNoDash),
      MetaItem(TRUE, None, DateIso),
      MetaItem(FALSE, None, None) }

\* the files of DOCS_DIR before organize_pdfs
Trees ==
    { {},
      {SourcePath(NameA)},
      {SourcePath(NameA), SourcePath(NameB)},
      {SourcePath(NameA), SourcePath(NameB),
       DestinationPath(Year2021, NameA)} }

\* the metadata files of a recombination
ConcatFiles ==
    { JsonList(<<>>), JsonList(<<ItemA>>), JsonList(<<ItemB, ItemA>>),
      JsonList(<<ItemA, ItemA>>), JsonDict(ItemB), JsonScalar, NotJson,
      NotUtf8 }

\* everything but the utility at rest
UtilityInit ==
    /\ LocatorIdle
    /\ NamesIdle
    /\ InitCrawl
    /\ disk = EmptyStore
    /\ site = Site(<< >>, PageEmpty, PageEmpty)
    /\ max_pages = 1
    /\ combined_file = NotWritten
    /\ organize_metadata = <<>>
    /\ item_idx = 1
    /\ moved_files = 0
    /\ skipped_files = 0
    /\ processed_filenames = {}
    /\ passes = <<>>
    /\ earlier_runs = <<>>

\* concatenate_metadata_files() on any store of MaxFiles files at most
InitConcat ==
    /\ UtilityInit
    /\ util = "concat"
    /\ docs_dir \in BOOLEAN
    /\ metadata_files \in (IF docs_dir THEN SeqsUpTo(ConcatFiles, MaxFiles)
                           ELSE {<<>>})
    /\ tree = {}

SpecConcat == InitConcat /\ [][Concatenate]_vars

\* organize_pdfs() on a store with one metadata file of MaxRecords items at
\* most, with a file that cannot be decoded, or with none
InitOrganize ==
    /\ UtilityInit
    /\ util = "organize"
    /\ docs_dir \in BOOLEAN
    /\ metadata_files \in
          (IF docs_dir
           THEN {<<JsonList(items)>> :
                    items \in SeqsUpTo(OrganizeItems, MaxRecords)}
                \cup {<<>>, <<NotUtf8>>}
           ELSE {<<>>})
    /\ tree \in (IF docs_dir THEN Trees ELSE {{}})

SpecOrganize == InitOrganize /\ [][NextOrganize]_vars

(***************************************************************************)
(* The store over time: download_pdf calls and organize_pdfs runs on the   *)
(* same DOCS_DIR.                                                          *)
(***************************************************************************)
\* the files of the store root as organize_pdfs sees them
InRoot(d) == {SourcePath(p) : p \in {q \in DOMAIN d : Exists(d, q)}}

\* the files in the year directories
InYears(files) == {p \in files : p.dir # <<>>}

\* a download_pdf call for the document of the records, while organize_pdfs
\* is not running
LifecycleDownload ==
    /\ util \in {"idle", "done"}
    /\ ncalls < MaxCalls
    /\ \E u \in StoreUrls, outcome \in FetchOutcomes :
          DoDownload(u, NameA, ServedBody(u), outcome, CutAt)
    /\ tree' = InRoot(disk') \cup InYears(tree)
    /\ UNCHANGED <<nexternal, docs_dir, metadata_files, combined_file, util,
                   organize_metadata, item_idx, moved_files, skipped_files,
                   processed_filenames, passes, earlier_runs, rest_vars>>

\* the first run of organize_pdfs()
OrganizeStart ==
    /\ util = "idle"
    /\ util' = "organize"
    /\ UNCHANGED <<docs_dir, metadata_files, tree, combined_file,
                   organize_metadata, item_idx, moved_files, skipped_files,
                   processed_filenames, passes, earlier_runs, idle_vars>>

NextLifecycle ==
    \/ LifecycleDownload
    \/ OrganizeStart
    \/ OrganizeLoad
    \/ OrganizeRecord
    \/ OrganizeDone
    \/ OrganizeAgain

\* the metadata of the lifecycle: records of the one document
LifecycleMetadata ==
    { <<JsonList(<<ItemA>>)>>,
      <<JsonList(<<ItemA, ItemA>>)>>,
      <<JsonList(<<MetaItem(TRUE, NameA, NotADate), ItemA>>)>>,
      <<JsonList(<<ItemB>>), JsonDict(ItemA)>> }

\* an empty store, the metadata files of a crawl, no utility running
InitLifecycle ==
    /\ UtilityInit
    /\ util = "idle"
    /\ docs_dir = TRUE
    /\ metadata_files \in LifecycleMetadata
    /\ tree = {}

SpecLifecycle == InitLifecycle /\ [][NextLifecycle]_vars

(***************************************************************************)
(* The paths of download_pdf, for any filename.                            *)
(***************************************************************************)
\* the characters of the filenames of the model
NameChars == {".", "/", "a", " "}

\* download_pdf derives its paths from the filename
DerivePaths ==
    /\ filepaths = NoPaths
    /\ filepaths' = Filepaths(desired_filename)
    /\ UNCHANGED <<desired_filename, store_vars, site, nfaults, pc, driver,
                   max_pages, page_vars, visit_vars, metadata_vars, seen_vars,
                   file_vars, locator_vars, organize_vars>>

\* download_pdf called with any filename of MaxLen characters at most
InitNames ==
    /\ LocatorIdle
    /\ OrganizeIdle
    /\ InitCrawl
    /\ disk = EmptyStore
    /\ site = Site(<< >>, PageEmpty, PageEmpty)
    /\ max_pages = 1
    /\ desired_filename \in SeqsUpTo(NameChars, MaxLen)
    /\ filepaths = NoPaths

SpecNames == InitNames /\ [][DerivePaths]_vars

(***************************************************************************)
(* The content store: claims C1 to C3, checked under SpecStore.            *)
(***************************************************************************)

\* C1: when a download_pdf call returned a digest and the next call has the
\* same url and filename, with no modification of the store in between, the
\* next call returns the same digest and issues no network request.
C1_IdempotentFetch ==
    Truthy(call.again) => (call.md5 = call.again /\ ~call.net)

\* a second call with the same arguments, after a first one that fetched
C1_Witness ==
    /\ ncalls = 2
    /\ Truthy(call.again)
    /\ call.pre_side = File(call.again)
    /\ ~call.net

\* the test of C2 as the claim words it: file and sidecar exist and the
\* digest of the file equals the content of the sidecar
SidecarEqualsDigest(file, side) ==
    /\ file.st = "file"
    /\ side.st = "file"
    /\ Md5Hex(file.text) = side.text

\* the same with the content of the sidecar stripped of surrounding whitespace
StrippedSidecarEqualsDigest(file, side) ==
    /\ file.st = "file"
    /\ side.st = "file"
    /\ Md5Hex(file.text) = Strip(side.text)

\* what C2 says of a call whose store passed (valid) or failed the test
CacheRule(valid, stored) ==
    ncalls > 0 =>
        /\ valid => (~call.net /\ call.md5 = stored)
        /\ ~valid => call.net
        /\ (quiet /\ call.net /\ Truthy(call.md5)) =>
               LET filepath == SafeFilename(call.filename)
               IN  /\ disk[Md5Path(filepath)] = File(call.md5)
                   /\ disk[filepath].st = "file"
                   /\ call.md5 = Md5Hex(disk[filepath].text)

\* C2 as stated: download_pdf skips the network and returns the stored
\* digest exactly when file and sidecar exist and the digest of the file
\* equals the content of the sidecar; otherwise it fetches, and after a
\* successful fetch the sidecar holds the digest of the file on disk.
C2_Original ==
    CacheRule(SidecarEqualsDigest(call.pre_file, call.pre_side),
              call.pre_side.text)

\* C2 as amended: the same, with the content of the sidecar compared after
\* its leading and trailing whitespace is stripped.
C2_CacheValidity ==
    CacheRule(StrippedSidecarEqualsDigest(call.pre_file, call.pre_side),
              Strip(call.pre_side.text))

\* a cache hit on a sidecar that holds the digest followed by a newline
C2_Witness ==
    /\ ncalls > 0
    /\ ~call.net
    /\ Truthy(call.md5)
    /\ call.pre_side.text # Strip(call.pre_side.text)

\* the three failure conditions of C3, each by a fetch outcome
FailureConditions == {"transport", "status", "write_fail"}

\* the value a call for filename returns in the current store when the fetch
\* ends as outcome
ValueOf(filename, outcome) ==
    download_pdf(disk, AbsA, filename, ServedBody(AbsA), outcome, CutAt).md5

\* the message such a call prints
MessageOf(filename, outcome) ==
    download_pdf(disk, AbsA, filename, ServedBody(AbsA), outcome, CutAt).log

\* C3 as stated: a transport failure, a non-success status and a local write
\* failure give the caller three distinct values.
C3_Original ==
    \A f \in StoreFilenames :
        ~CacheHit(disk, SafeFilename(f)) =>
            \A o1, o2 \in FailureConditions :
                o1 # o2 => ValueOf(f, o1) # ValueOf(f, o2)

\* C3 as amended: the three failure conditions give the caller the same
\* value, None; they differ only in the message printed, "Error downloading"
\* for a transport failure and for a non-success status, "Error writing
\* file" for a local write failure.
C3_FailureSignal ==
    \A f \in StoreFilenames :
        ~CacheHit(disk, SafeFilename(f)) =>
            \A o \in FailureConditions :
                /\ ValueOf(f, o) = None
                /\ MessageOf(f, o) =
                       (IF o = "write_fail" THEN "Error writing file"
                        ELSE "Error downloading")

\* a call that failed on a local write and returned None
C3_Witness ==
    /\ ncalls > 0
    /\ call.net
    /\ call.log = "Error writing file"
    /\ call.md5 = None
    /\ ~CacheHit(disk, SafeFilename(call.filename))


(***************************************************************************)
(* One article visit and the metadata: claims C4 to C10, checked under     *)
(* Spec.                                                                   *)
(***************************************************************************)

\* C4: a failed fetch, or an exception while one candidate is processed,
\* does not end the loop over all_pdf_links: the candidates are handled one
\* after the other, in order, each exactly once, whatever became of the ones
\* before.
C4_FailureDoesNotAbort ==
    pc \in {"links", "visit"} =>
        /\ Len(handled) = (IF pc = "links" THEN link_idx - 1
                           ELSE Len(all_pdf_links))
        /\ Len(handled) <= Len(all_pdf_links)
        /\ \A i \in 1..Len(handled) : handled[i].link = all_pdf_links[i]

\* a candidate handled after one whose fetch failed or that raised
C4_Witness ==
    /\ pc \in {"links", "visit"}
    /\ \E i \in 1..Len(handled) :
        /\ handled[i].outcome \in {"failed", "raised"}
        /\ i < Len(handled)

\* C5: a record is appended to all_metadata and page_metadata only in a step
\* in which download_pdf returned a non-empty digest, and it carries that
\* digest; a step in which download_pdf returned no digest appends nothing.
C5_RecordOnlyAfterDigest ==
    [][ /\ (Len(all_metadata') > Len(all_metadata)
              \/ Len(page_metadata') > Len(page_metadata)) =>
            /\ ncalls' = ncalls + 1
            /\ Truthy(call'.md5)
            /\ Len(all_metadata') = Len(all_metadata) + 1
            /\ Len(page_metadata') = Len(page_metadata) + 1
            /\ all_metadata'[Len(all_metadata')].file_md5 = call'.md5
            /\ all_metadata'[Len(all_metadata')].pdf_url = call'.url
            /\ page_metadata'[Len(page_metadata')] =
                   all_metadata'[Len(all_metadata')]
        /\ (ncalls' = ncalls + 1 /\ ~Truthy(call'.md5)) =>
            /\ all_metadata' = all_metadata
            /\ page_metadata' = page_metadata
      ]_vars

\* a candidate whose fetch failed, after one that gave a record
C5_Witness ==
    /\ pc = "links"
    /\ Len(handled) >= 2
    /\ handled[Len(handled)].outcome = "failed"
    /\ handled[Len(handled) - 1].outcome = "recorded"
    /\ call.net
    /\ ~Truthy(call.md5)
    /\ Len(page_metadata) = 1

\* the concatenation of a sequence of sequences
RECURSIVE Flatten(_)
Flatten(ss) == IF ss = <<>> THEN <<>> ELSE Head(ss) \o Flatten(Tail(ss))

\* C6: all_metadata is the in-order concatenation of the page batches of the
\* results pages processed so far, the one in progress included.
C6_GlobalIsConcatenation ==
    /\ all_metadata = Flatten(page_batches)
    /\ page_batches # <<>> => page_batches[Len(page_batches)] = page_metadata

\* two results pages, each with a record
C6_Witness ==
    /\ Len(page_batches) = 2
    /\ page_batches[1] # <<>>
    /\ page_batches[2] # <<>>

\* the resolved absolute href of a candidate
ResolvedHref(link) == urljoin(BASE_URL, link.href)

\* C7: after the merge, all_pdf_links holds at most one entry per distinct
\* resolved absolute href.
C7_DedupByHref ==
    pc = "links" =>
        \A i, j \in 1..Len(all_pdf_links) :
            i # j =>
                ResolvedHref(all_pdf_links[i]) # ResolvedHref(all_pdf_links[j])

\* the elements of a sequence
Range(seq) == {seq[i] : i \in 1..Len(seq)}

AllStrategies ==
    {"analysis", "regular", "custom"}
        \cup {SelectorName(k) : k \in 1..NumSelectors}

\* every match of any strategy on the page
AllMatches(pg) ==
    Range(AnalysisLinks(pg)) \cup Range(RegularLinks(pg))
        \cup UNION {Range(ShadowLinks(pg, k)) : k \in 1..NumSelectors}
        \cup Range(CustomLinks(pg))

\* C8 as stated: on every visit all strategies and all patterns are run, and
\* every match of every pattern is among the merged candidates.
C8_Original ==
    pc = "links" =>
        /\ Range(queried) = AllStrategies
        /\ \A m \in AllMatches(page) :
            \E i \in 1..Len(all_pdf_links) :
                ResolvedHref(all_pdf_links[i]) = ResolvedHref(m)

\* C8 as amended: the shadow-DOM analysis and the structured-attribute
\* extraction run on every visit; the regular-DOM query runs only when the
\* analysis gave no candidate, and the selectors of the ordered list only
\* when the regular-DOM query gave none either, each only when all selectors
\* before it matched nothing; the candidates of the one tier used, and every
\* structured-attribute link, are among the merged candidates.
C8_TieredDiscovery ==
    pc = "links" =>
        /\ "analysis" \in Range(queried)
        /\ "custom" \in Range(queried)
        /\ "regular" \in Range(queried) <=> AnalysisLinks(page) = <<>>
        /\ \A k \in 1..NumSelectors :
            SelectorName(k) \in Range(queried) <=>
                /\ AnalysisLinks(page) = <<>>
                /\ RegularLinks(page) = <<>>
                /\ \A j \in 1..(k - 1) : ShadowLinks(page, j) = <<>>
        /\ pdf_links =
              (IF AnalysisLinks(page) # <<>> THEN AnalysisLinks(page)
               ELSE IF RegularLinks(page) # <<>> THEN RegularLinks(page)
               ELSE IF \E k \in 1..NumSelectors : ShadowLinks(page, k) # <<>>
               THEN ShadowLinks(page,
                        CHOOSE k \in 1..NumSelectors :
                            /\ ShadowLinks(page, k) # <<>>
                            /\ \A j \in 1..(k - 1) : ShadowLinks(page, j) = <<>>)
               ELSE <<>>)
        /\ \A m \in Range(pdf_links) \cup Range(CustomLinks(page)) :
            HrefPresent(all_pdf_links, m.href)

\* a visit on which the analysis found a link, so that the matching
\* regular-DOM link was never queried and is no candidate
C8_Witness ==
    /\ pc = "links"
    /\ AnalysisLinks(page) # <<>>
    /\ RegularLinks(page) # <<>>
    /\ "regular" \notin Range(queried)
    /\ \E m \in Range(RegularLinks(page)) : m \notin Range(all_pdf_links)

C10_AcceptanceRule ==
    \A i \in 1..Len(handled) :
        LET link == handled[i].link
            fetched == handled[i].outcome \in {"recorded", "failed"}
            marked == page[link.elem].download
        IN  handled[i].outcome \notin {"raised", "dropped"} =>
                (fetched <=>
                    (LowerEndsWithPdf(UrlStr(ResolvedHref(link))) \/ marked))


(***************************************************************************)
(* Claims C11 to C20, checked under Spec unless said otherwise.            *)
(***************************************************************************)

\* C11: a candidate whose href ends in '.pdf' and whose resolved URL has an
\* empty path basename is dropped in the step that handles it: download_pdf
\* is not called, the store and the metadata stay as they are, the
\* candidate does not count as failed, and the loop goes on with the next
\* candidate.
C11_EmptyBasenameDropped ==
    [][ (pc = "links" /\ Len(handled') = Len(handled) + 1) =>
          LET h == handled'[Len(handled')]
              url == ResolvedHref(all_pdf_links[link_idx])
          IN  (/\ h.outcome # "raised"
               /\ LowerEndsWithPdf(UrlStr(all_pdf_links[link_idx].href))
               /\ Basename(url.path) = <<>>) =>
                  /\ h.link = all_pdf_links[link_idx]
                  /\ h.outcome = "dropped"
                  /\ ncalls' = ncalls
                  /\ call' = call
                  /\ disk' = disk
                  /\ all_metadata' = all_metadata
                  /\ page_metadata' = page_metadata
                  /\ link_idx' = link_idx + 1
                  /\ pc' = "links"
      ]_vars

\* a candidate dropped for its empty basename, and the next one fetched
C11_Witness ==
    /\ pc = "links"
    /\ Len(handled) = 2
    /\ handled[1].outcome = "dropped"
    /\ Basename(ResolvedHref(handled[1].link).path) = <<>>
    /\ handled[2].outcome = "recorded"
    /\ ncalls = 1


(***************************************************************************)
(* The locator: claims C12 to C14, checked under SpecLocator.              *)
(***************************************************************************)

\* does element n lie inside a shadow root, at any depth
RECURSIVE InShadowTree(_, _)
InShadowTree(f, n) ==
    \/ f[n].via = "shadow"
    \/ (f[n].parent # 0 /\ InShadowTree(f, f[n].parent))

\* no element occurs twice in the sequence
NoDuplicates(seq) ==
    \A i, j \in 1..Len(seq) : i # j => seq[i] # seq[j]

C13_TraversalTerminates ==
    /\ [](NoDuplicates(queried_roots) /\ Len(queried_roots) <= Len(forest))
    /\ <>(locator \in {"done", "failed"})

\* a finished run on a forest with a host that is a light-DOM descendant of
\* another host and so found both from the document and from that host
C13_Witness ==
    /\ locator = "done"
    /\ \E h \in 1..Len(forest) :
        /\ forest[h].host
        /\ forest[h].via = "light"
        /\ forest[h].parent # 0
        /\ forest[forest[h].parent].host
        /\ forest[forest[h].parent].via = "light"
        /\ h \in Range(queried_roots)

\* the matches inside shadow roots other than those in which the query throws
MatchesElsewhere ==
    {n \in 1..Len(forest) :
        /\ forest[n].match
        /\ \E h \in 1..Len(forest) :
            /\ h \notin throws
            /\ Under(forest, n, ShadowRoot(h))}

\* C14, for the locator of shadow_scraper.py: a query that throws in one
\* shadow root leaves the matches of all the others in the result.
IsolatedInScript ==
    locator = "done" => Range(Returned) = MatchesElsewhere

\* C14: a query that throws in one shadow root leaves the matches of all
\* the others in the result, for the locator of shadow_scraper.py and for
\* that of scraper_dlz.py.
C14_FailureIsolation ==
    /\ IsolatedInScript
    /\ locator = "done" =>
          Range(find_elements_dlz(forest, throws)) = MatchesElsewhere


(***************************************************************************)
(* The results pages and the loop over them: claims C15 to C20.            *)
(***************************************************************************)

\* a step that loads a results page and finds items on it, with no failure
\* of the driver or the locator
ItemsFound ==
    /\ pc = "loop"
    /\ Len(loaded') = Len(loaded) + 1
    /\ nfaults' = nfaults
    /\ result_items' # <<>>

\* C15: a result item without a usable URL (link attribute absent,
\* unparsable, without url, or JSON that is no object) is skipped: the
\* extraction goes on to the article visits of the page, with every item
\* that has a usable URL not yet visited among page_articles.
C15_SkipRule ==
    [][ ItemsFound =>
          /\ pc' = "visit"
          /\ \A i \in 1..Len(result_items') :
                LET u == ArticleUrl(result_items'[i])
                IN  (u # NoUrl /\ u \notin processed_article_urls) =>
                        \E k \in 1..Len(page_articles') :
                            page_articles'[k].url = u
      ]_vars

\* C16: an article URL visited on one results page is not visited on a
\* later one, and every record of a later page's batch comes from a visit
\* made on that page.
C16_VisitedExclusion ==
    /\ \A i, j \in 1..Len(navigated) :
          (i < j /\ navigated[i].url = navigated[j].url) =>
              navigated[i].page = navigated[j].page
    /\ \A n \in 1..Len(page_batches) :
          \A k \in 1..Len(page_batches[n]) :
              \E i \in 1..Len(navigated) :
                  /\ navigated[i].url = page_batches[n][k].source_page_url
                  /\ navigated[i].page = n

\* a second results page with an item for an article visited on the first,
\* extracted and skipped
C16_Witness ==
    /\ pc = "visit"
    /\ page_num = 2
    /\ \E i \in 1..Len(result_items) :
        /\ \E v \in 1..Len(navigated) :
            /\ navigated[v].url = ArticleUrl(result_items[i])
            /\ navigated[v].page = 1
        /\ \A k \in 1..Len(page_articles) :
            page_articles[k].url # ArticleUrl(result_items[i])
    /\ page_batches[1] # <<>>

\* C17: no article URL is navigated to more than once in a run.
C17_NoDuplicateWork ==
    \A i, j \in 1..Len(navigated) :
        i # j => navigated[i].url # navigated[j].url

\* the ways run() leaves its loops, as a step: the page cap, a results
\* page without items, no driver, no new article on a page after the first,
\* and a failure (an exception or an interrupt)
AtPageCap == pc = "loop" /\ page_num > max_pages
AtEmptyPage ==
    pc = "loop" /\ Len(loaded') = Len(loaded) + 1 /\ result_items' = <<>>
AtNoDriver == pc = "run" /\ driver = "none"
AtNoNewArticles ==
    /\ pc = "visit"
    /\ art_idx > Len(page_articles)
    /\ ~found_new_articles_on_page
    /\ page_num > 1
AtFailure ==
    \/ nfaults' > nfaults
    \/ /\ pc = "loop"
       /\ Len(loaded') = Len(loaded) + 1
       /\ \E i \in 1..Len(result_items') : ItemRaises(result_items'[i])

\* the step that leaves the loops of run()
Terminates == pc \in {"run", "loop", "visit", "links"} /\ pc' = "exit"

\* the step that ends a results page: all its articles are visited
PageEnds == pc = "visit" /\ art_idx > Len(page_articles) /\ pc' # "visit"

\* C18 as stated, for steps without a failure: the run terminates only at
\* the page cap, at a results page without items or without a driver, and a
\* results page with items ends with its batch written and page n+1 next.
C18_Original ==
    [][ ~AtFailure =>
          /\ Terminates => (AtPageCap \/ AtEmptyPage \/ AtNoDriver)
          /\ PageEnds =>
                /\ page_metadata # <<>> =>
                      page_files'[page_num] = Written(page_metadata)
                /\ pc' = "loop"
                /\ page_num' = page_num + 1
      ]_vars

\* C18 as amended: the run terminates only at the page cap, at a results
\* page without items, without a driver, at the end of a results page after
\* the first that had no new article, or by a failure; a results page with
\* items ends, unless a failure ends the run, with its batch written when
\* it is not empty and the write succeeds, and then with termination when
\* the page is after the first and had no new article, else with page n+1.
C18_TerminalConditions ==
    [][ /\ Terminates =>
            (AtPageCap \/ AtEmptyPage \/ AtNoDriver \/ AtNoNewArticles
                \/ AtFailure)
        /\ (PageEnds /\ pc' # "exit") =>
            /\ pc' = "loop"
            /\ page_num' = page_num + 1
            /\ ~AtNoNewArticles
        /\ (PageEnds /\ nfaults' = nfaults) =>
            /\ page_metadata # <<>> =>
                  page_files'[page_num] = Written(page_metadata)
            /\ page_metadata = <<>> => page_files' = page_files
            /\ AtNoNewArticles <=> pc' = "exit"
      ]_vars

\* a run ended, without any failure, by a second results page without a new
\* article, below the page cap and with a third results page never loaded
C18_Witness ==
    /\ pc = "exit"
    /\ nfaults = 0
    /\ page_num = 2
    /\ page_num < max_pages
    /\ loaded = <<1, 2>>
    /\ result_items # <<>>
    /\ ~found_new_articles_on_page
    /\ ResultItems(site, 3) # <<>>

\* C19: the results pages loaded are 1, 2, ... in order, at most
\* MAX_PAGES_TO_SCRAPE of them, the page number never decreases, and every
\* run ends.
C19_CrawlTerminates ==
    /\ [](/\ loaded = [k \in 1..Len(loaded) |-> k]
          /\ Len(loaded) <= max_pages
          /\ page_num \in {Len(loaded), Len(loaded) + 1})
    /\ <>(pc = "done")

\* a run that ended at the page cap after loading every page below it
C19_Witness ==
    /\ pc = "done"
    /\ nfaults = 0
    /\ max_pages >= 2
    /\ Len(loaded) = max_pages
    /\ page_num = max_pages + 1

\* C20: when the wait for the readiness element times out, the visit goes
\* on with the link discovery on that article's page.
C20_TimeoutNonFatal ==
    [][ (/\ Len(navigated') = Len(navigated) + 1
         /\ navigated'[Len(navigated')].wait = "timeout") =>
            /\ pc' = "links"
            /\ page' = site.article[navigated'[Len(navigated')].url]
      ]_vars

(***************************************************************************)
(* Failures and the ways a run ends: claims C21 to C24.                    *)
(***************************************************************************)

\* a step that starts the visit of an article and raises, in the navigation,
\* the wait or a script of the analysis and discovery
VisitRaises ==
    /\ Len(navigated') = Len(navigated) + 1
    /\ navigated'[Len(navigated')].wait # "none"

\* C21: an exception raised while article i of a results page is visited
\* leaves the run inside the loop over the articles of that page, at
\* article i+1.
C21_ArticleFailureIsolated ==
    [][ VisitRaises =>
            /\ pc' = "visit"
            /\ art_idx' = art_idx + 1
            /\ page_num' = page_num
      ]_vars

\* the step of __exit__ in which the driver is closed and the write of
\* docs_metadata.json fails
ExitWriteFails == pc = "exit" /\ driver' = "none" /\ nfaults' > nfaults

\* C22: when a run ends with at least one record accumulated, and the write
\* itself does not fail, docs_metadata.json is written with every record
\* accumulated.
C22_FlushOnEveryExit ==
    [][ (pc = "exit" /\ pc' = "done" /\ all_metadata # <<>>
            /\ ~ExitWriteFails) =>
            final_file' = Written(all_metadata)
      ]_vars

\* run() is entered, or has returned, without a driver:
\* init_selenium_driver failed
SetupFailed == pc \in {"run", "exit"} /\ driver = "none"

\* no results page loaded, no article visited, no download_pdf call, no
\* record and no metadata file
NothingDone ==
    /\ loaded = <<>>
    /\ navigated = <<>>
    /\ ncalls = 0
    /\ all_metadata = <<>>
    /\ page_batches = <<>>
    /\ \A n \in 1..MaxPages : page_files[n] = NotWritten
    /\ final_file = NotWritten

\* C23: after a failed driver initialisation run() returns and the run ends,
\* with no results page loaded, no navigation, no fetch, no per-page
\* metadata file and no record, before and after each of these steps.
C23_SetupFailure ==
    [][ SetupFailed =>
            /\ pc' = IF pc = "run" THEN "exit" ELSE "done"
            /\ driver' = "none"
            /\ NothingDone
            /\ NothingDone'
      ]_vars

\* run() has returned for want of a driver
C23_Witness == pc = "exit" /\ driver = "none" /\ nfaults = 1

\* the step of save_metadata_per_page in which the write of the file fails
WriteFails ==
    /\ Len(save_log') = Len(save_log) + 1
    /\ ~save_log'[Len(save_log')].ok

\* C24: a failed write of the metadata file of page n leaves the records of
\* page n in all_metadata and is followed by page n+1, and every results
\* page that ended with a batch of records had its own write tried, whatever
\* became of the writes before it.
C24_WriteFailureContinues ==
    /\ [][ WriteFails =>
              /\ pc' = "loop"
              /\ page_num' = page_num + 1
              /\ all_metadata' = all_metadata
              /\ page_batches' = page_batches
              /\ page_files' = page_files
         ]_vars
    /\ [](\A n \in 1..Len(page_batches) :
              (n < page_num /\ page_batches[n] # <<>>) =>
                  \E i \in 1..Len(save_log) : save_log[i].page = n)

\* the write for page 1 failed, page 2 was processed and its file written,
\* and the records of both pages are in all_metadata
C24_Witness ==
    /\ Len(save_log) = 2
    /\ save_log[1] = [page |-> 1, ok |-> FALSE]
    /\ save_log[2] = [page |-> 2, ok |-> TRUE]
    /\ page_files[1] = NotWritten
    /\ page_files[2] = Written(page_batches[2])
    /\ all_metadata = page_batches[1] \o page_batches[2]

(***************************************************************************)
(* organize_pdfs.py: claims C25 to C28.                                    *)
(***************************************************************************)

\* a metadata file that holds records: a JSON list, or one JSON object
WellFormed(file) == file.kind \in {"list", "dict"}

\* the records of the metadata files, file by file
FileRecords == [k \in 1..Len(metadata_files) |-> metadata_files[k].data]

\* C25: when every per-page metadata file of the store is well formed and
\* there is at least one, concatenate_metadata_files, unless the write of
\* the output fails, writes a combined file that holds the records of the
\* files, each as it is in its file, none lost and none added: s1+...+sN
\* records.
C25_CombinedUnion ==
    (/\ util \notin {"concat", "write_error"}
     /\ docs_dir
     /\ metadata_files # <<>>
     /\ \A k \in 1..Len(metadata_files) : WellFormed(metadata_files[k])) =>
        /\ util = "written"
        /\ combined_file = Written(Flatten(FileRecords))
        /\ Len(combined_file.data) = Len(Flatten(FileRecords))

\* two well-formed files with records, combined
C25_Witness ==
    /\ util = "written"
    /\ Len(metadata_files) = 2
    /\ \A k \in 1..2 :
          WellFormed(metadata_files[k]) /\ metadata_files[k].data # <<>>
    /\ Len(combined_file.data) >= 3

\* the records of the well-formed metadata files, file by file
WellFormedRecords ==
    [k \in 1..Len(metadata_files) |->
        IF WellFormed(metadata_files[k]) THEN metadata_files[k].data
        ELSE <<>>]

\* C26: concatenate_metadata_files returns without an exception; without
\* the store directory it writes nothing; with metadata files of which some
\* are malformed it writes, unless the write itself fails, the records of
\* the well-formed files and no others.
C26_RecombinationTolerance ==
    util # "concat" =>
        /\ util # "raised"
        /\ ~docs_dir => (util = "no_dir" /\ combined_file = NotWritten)
        /\ (docs_dir /\ metadata_files # <<>> /\ util # "write_error") =>
              combined_file = Written(Flatten(WellFormedRecords))

\* a pass of the loop of organize_pdfs over a record that names a file,
\* without an OSError of mkdir or shutil.move
RecordPass ==
    /\ Len(passes') = Len(passes) + 1
    /\ passes'[Len(passes')].outcome # "os_error"
    /\ organize_metadata[item_idx].isdict
    /\ Truthy(organize_metadata[item_idx].downloaded_filename)

\* the record's date has a 4-digit year prefix, its file is in the store and
\* no file is at the destination
Qualifies(item, files) ==
    /\ Truthy(item.date)
    /\ YearOk(YearPart(item.date))
    /\ SourcePath(item.downloaded_filename) \in files
    /\ DestinationPath(YearPart(item.date), item.downloaded_filename)
           \notin files

\* the files of the store after the file of item is moved to its year
Moved(item, files) ==
    (files \ {SourcePath(item.downloaded_filename)})
        \cup {DestinationPath(YearPart(item.date), item.downloaded_filename)}

\* C27: organize_pdfs moves the file of a record exactly when the record
\* qualifies; otherwise the record is counted as skipped and no file is
\* moved, overwritten or deleted; either way the loop goes on.
C27_OrganizeByYear ==
    [][ RecordPass =>
          LET item == organize_metadata[item_idx]
          IN  /\ IF Qualifies(item, tree)
                 THEN /\ tree' = Moved(item, tree)
                      /\ moved_files' = moved_files + 1
                      /\ skipped_files' = skipped_files
                 ELSE /\ tree' = tree
                      /\ moved_files' = moved_files
                      /\ skipped_files' = skipped_files + 1
              /\ item_idx' = item_idx + 1
              /\ util' = "loop"
      ]_vars

\* the part of s before its first '-', all of s when it has none
BeforeDash(s) ==
    SubSeq(s, 1, CHOOSE k \in 0..Len(s) :
                    /\ \A i \in 1..k : s[i] # "-"
                    /\ k = Len(s) \/ s[k + 1] = "-")

\* exactly four characters, all digits
FourDigits(s) == Len(s) = 4 /\ \A i \in 1..Len(s) : s[i] \in DigitChars

\* the date of the item gives a year
HasYear(item) == Truthy(item.date) /\ FourDigits(BeforeDash(item.date))

\* C28: the year of a record is the part of its date before the first '-',
\* taken only when it is exactly four digits ("2021-02-12T00:00:00.000Z"
\* gives "2021"; "not-a-date" and the empty string give none).  A pass over
\* a record without a year moves no file and, for the first record of its
\* filename, counts one skip; a file that is moved goes to the directory of
\* its record's year.
C28_DateToYear ==
    [][ (/\ Len(passes') = Len(passes) + 1
         /\ organize_metadata[item_idx].isdict
         /\ Truthy(organize_metadata[item_idx].downloaded_filename)) =>
          LET item == organize_metadata[item_idx]
              first == item.downloaded_filename \notin processed_filenames
              outcome == passes'[Len(passes')].outcome
          IN  /\ HasYear(MetaItem(TRUE, NameA, DateIso))
              /\ BeforeDash(DateIso) = Year2021
              /\ ~HasYear(MetaItem(TRUE, NameA, NotADate))
              /\ ~HasYear(MetaItem(TRUE, NameA, <<>>))
              /\ first => (outcome \in {"no_date", "bad_date"}
                              <=> ~HasYear(item))
              /\ ~HasYear(item) =>
                    /\ tree' = tree
                    /\ moved_files' = moved_files
                    /\ first => skipped_files' = skipped_files + 1
              /\ outcome = "moved" =>
                    /\ HasYear(item)
                    /\ tree' = (tree \ {SourcePath(item.downloaded_filename)})
                                 \cup {DestinationPath(BeforeDash(item.date),
                                          item.downloaded_filename)}
      ]_vars

\* a record dated "2021-02-12T00:00:00.000Z" had its file moved to 2021 and
\* a record dated "not-a-date" was skipped with its file in place
C28_Witness ==
    /\ util = "done"
    /\ \E i \in 1..Len(passes) :
          /\ passes[i].item = ItemB
          /\ passes[i].outcome = "moved"
    /\ DestinationPath(Year2021, NameB) \in tree
    /\ \E j \in 1..Len(passes) :
          /\ passes[j].item = MetaItem(TRUE, NameA, NotADate)
          /\ passes[j].outcome = "bad_date"
    /\ SourcePath(NameA) \in tree
    /\ skipped_files = 1
    /\ moved_files = 1

(***************************************************************************)
(* The paths of download_pdf and the records of a run: claims C29, C30.    *)
(***************************************************************************)

\* C29: for every filename, the paths of download_pdf are the file of the
\* sanitised basename in the store directory and that path with '.md5'; the
\* file path never resolves outside the store directory or to the store
\* directory itself.
C29_SanitizationConfines ==
    filepaths # NoPaths =>
        /\ filepaths.filepath = SafeFilename(desired_filename)
        /\ Len(filepaths.filepath) = Len(Basename(desired_filename))
        /\ \A i \in 1..Len(filepaths.filepath) :
              filepaths.filepath[i] \in AlnumChars \cup SafePunct
        /\ filepaths.md5_filepath = filepaths.filepath \o DotMd5
        /\ filepaths.resolved = "file"

\* records already appended stay as they are
RecordsKept ==
    /\ Len(all_metadata') >= Len(all_metadata)
    /\ SubSeq(all_metadata', 1, Len(all_metadata)) = all_metadata

\* C30: all_metadata never holds two records with the same local filename,
\* and a record once appended is never modified.
C30_OneRecordPerDocument ==
    /\ [](\A i, j \in 1..Len(all_metadata) :
              i # j => all_metadata[i].downloaded_filename
                           # all_metadata[j].downloaded_filename)
    /\ [][RecordsKept]_vars

(***************************************************************************)
(* The order of the controller and the tiers of discovery: claims C31 to   *)
(* C34.                                                                    *)
(***************************************************************************)
\* the records created during the visits of results page n
RecordsOfVisits(n) ==
    LET of_page(rec) ==
            \E i \in 1..Len(navigated) :
                /\ navigated[i].page = n
                /\ navigated[i].url = rec.source_page_url
    IN  SelectSeq(all_metadata, of_page)

\* has the batch of results page n been written
Persisted(n) ==
    \E i \in 1..Len(save_log) : save_log[i].page = n /\ save_log[i].ok

\* a step of the controller in its order: a results page is loaded with the
\* number after the last one, once the records of the last one were saved (a
\* failed write apart); an article is visited for the page loaded last, before
\* that page's batch is saved; a batch is saved for the page loaded last
InOrder ==
    /\ loaded' # loaded =>
          /\ loaded' = Append(loaded, Len(loaded) + 1)
          /\ (Len(loaded) >= 1 /\ RecordsOfVisits(Len(loaded)) # <<>>) =>
                \E i \in 1..Len(save_log) : save_log[i].page = Len(loaded)
    /\ navigated' # navigated =>
          /\ loaded # <<>>
          /\ loaded' = loaded
          /\ navigated' = Append(navigated, navigated'[Len(navigated')])
          /\ navigated'[Len(navigated')].page = Len(loaded)
          /\ \A i \in 1..Len(save_log) : save_log[i].page # Len(loaded)
          /\ ~page_files[Len(loaded)].written
    /\ save_log' # save_log =>
          /\ loaded # <<>>
          /\ loaded' = loaded
          /\ navigated' = navigated
          /\ save_log' = Append(save_log, save_log'[Len(save_log')])
          /\ save_log'[Len(save_log')].page = Len(loaded)

\* C31: the results pages are loaded in the order 1, 2, 3, ...; the article
\* visits of page n come after page n is loaded and before the batch of page
\* n is saved, which comes before page n+1 is loaded; and the per-page file
\* of page n, once written, holds exactly the records created during the
\* visits of page n.
C31_ControllerOrdering ==
    /\ [](/\ \A i \in 1..Len(loaded) : loaded[i] = i
          /\ \A n \in 1..MaxPages :
                /\ page_files[n].written =>
                      page_files[n].data = RecordsOfVisits(n)
                /\ Persisted(n) => page_files[n].written)
    /\ [][InOrder]_vars

\* two results pages loaded, an article of each visited and the records of
\* each in that page's file
C31_Witness ==
    /\ loaded = <<1, 2>>
    /\ \A n \in 1..2 :
          /\ \E i \in 1..Len(navigated) : navigated[i].page = n
          /\ page_files[n].written
          /\ page_files[n].data # <<>>
    /\ page_files[1].data # page_files[2].data

\* the sources of pattern-side candidates in the order run() turns to them:
\* the analysis, the regular-DOM query, and the shadow selectors one by one
Tiers(pg) ==
    <<AnalysisLinks(pg), RegularLinks(pg)>>
        \o [k \in 1..NumSelectors |-> ShadowLinks(pg, k)]
TierNames ==
    <<"analysis", "regular">> \o [k \in 1..NumSelectors |-> SelectorName(k)]

\* the position of the first source with a candidate, the last position
\* when none has one
FirstYielding(pg) ==
    IF \E t \in 1..Len(Tiers(pg)) : Tiers(pg)[t] # <<>>
    THEN CHOOSE t \in 1..Len(Tiers(pg)) :
            /\ Tiers(pg)[t] # <<>>
            /\ \A j \in 1..(t - 1) : Tiers(pg)[j] = <<>>
    ELSE Len(Tiers(pg))

\* C32: on every article visit the sources are consulted in their order up
\* to the first that yields a candidate and no further, the pattern-side
\* list is what that one source yielded, and the structured-attribute
\* extraction is run after them whatever they yielded.
C32_TieredFallback ==
    pc = "links" =>
        LET t == FirstYielding(page)
        IN  /\ queried = SubSeq(TierNames, 1, t) \o <<"custom">>
            /\ pdf_links = Tiers(page)[t]
            /\ \A j \in 1..(t - 1) : Tiers(page)[j] = <<>>
            /\ custom_pdf_links = CustomLinks(page)

\* a visit that got its pattern-side links from the last shadow selector,
\* after the analysis, the regular-DOM query and four selectors gave nothing
C32_Witness ==
    /\ pc = "links"
    /\ AnalysisLinks(page) = <<>>
    /\ RegularLinks(page) = <<>>
    /\ FirstYielding(page) = Len(TierNames)
    /\ pdf_links # <<>>
    /\ Len(queried) = Len(TierNames) + 1

\* a results page with items is through and none of its items was visited
NoNewArticle ==
    /\ pc = "visit"
    /\ art_idx > Len(page_articles)
    /\ result_items # <<>>
    /\ \A i \in 1..Len(navigated) : navigated[i].page # page_num

\* the end of such a page: nothing is written for its empty batch, and the
\* run stops after a page other than the first and goes on after the first
StopOrAdvance ==
    /\ page_metadata = <<>>
    /\ page_files' = page_files
    /\ loaded' = loaded
    /\ IF page_num > 1
       THEN pc' = "exit" /\ page_num' = page_num
       ELSE pc' = "loop" /\ page_num' = 2

\* once the loop of run() is left no results page is loaded
NoLaterPage == pc' \in {"exit", "done"} /\ loaded' = loaded

\* C33: when a results page had items but no new article, the save of its
\* (empty) batch writes nothing; on a page after the first the run then
\* leaves the loop and loads no further results page, on page 1 it goes on
\* to page 2.
C33_NoNewArticlesStop ==
    /\ [][(NoNewArticle /\ pc' # pc /\ nfaults' = nfaults) => StopOrAdvance]_vars
    /\ [][(pc \in {"exit", "done"}) => NoLaterPage]_vars

\* a run that went from a first results page without a new article on to
\* the second, had no new article there either and stopped, a third results
\* page with an article never loaded
C33_Witness ==
    /\ pc = "exit"
    /\ nfaults = 0
    /\ loaded = <<1, 2>>
    /\ navigated = <<>>
    /\ ResultItems(site, 1) # <<>>
    /\ result_items = ResultItems(site, 2)
    /\ result_items # <<>>
    /\ ResultItems(site, 3) # <<>>
    /\ max_pages >= 3

\* the last search for result items failed: its script raised or timed out
SearchFailed ==
    /\ searched # <<>>
    /\ searched[Len(searched)].outcome \in {"script_error", "script_timeout"}

\* the step on which a search for result items fails: the item list is
\* empty and the run leaves its loop with no record lost
FailedSearchEndsLoop ==
    (Len(searched') = Len(searched) + 1 /\ SearchFailed') =>
        /\ result_items' = <<>>
        /\ pc' = "exit"
        /\ all_metadata' = all_metadata

\* the end of a run after a failed search, when nothing else fails: the
\* records of the earlier pages are written to the combined file
FlushedAfterFailedSearch ==
    (SearchFailed /\ pc = "exit" /\ pc' = "done" /\ nfaults' = nfaults) =>
        /\ all_metadata # <<>> => final_file' = Written(all_metadata)
        /\ all_metadata' = all_metadata

\* C34: a failed search for the result items of a results page gives an
\* empty list; the run then ends without a visit to an article of that page
\* and without loading a later results page, and the records of the earlier
\* pages are written to the combined metadata file.
C34_LocatorFailureEndsCrawl ==
    /\ [](SearchFailed =>
            /\ pc \in {"exit", "done"}
            /\ loaded[Len(loaded)] = searched[Len(searched)].page
            /\ \A i \in 1..Len(navigated) :
                  navigated[i].page < searched[Len(searched)].page
            /\ \A i \in 1..Len(all_metadata) :
                  \E n \in 1..(searched[Len(searched)].page - 1) :
                      all_metadata[i] \in Range(RecordsOfVisits(n)))
    /\ [][FailedSearchEndsLoop]_vars
    /\ [][FlushedAfterFailedSearch]_vars

\* a run ended by a script timeout of the search on the second results
\* page, whose articles were never visited, with the records of the first
\* page in the combined file
C34_Witness ==
    /\ pc = "done"
    /\ searched = <<Search(1, "none"), Search(2, "script_timeout")>>
    /\ ResultItems(site, 2) # <<>>
    /\ PageArticles(ResultItems(site, 2), processed_article_urls) # <<>>
    /\ loaded = <<1, 2>>
    /\ all_metadata # <<>>
    /\ final_file = Written(all_metadata)

(***************************************************************************)
(* The cache of the store and the organizer: claims C35 to C39.            *)
(***************************************************************************)
\* file and sidecar of a path both exist and the sidecar, as download_pdf
\* reads it, is the digest of the file
DigestsMatch(path) ==
    /\ disk[path].st = "file"
    /\ disk[Md5Path(path)].st = "file"
    /\ Strip(disk[Md5Path(path)].text) = Md5Hex(disk[path].text)

\* the last call failed and left its target file cut short
CallTruncated ==
    /\ call # NoCall
    /\ call.net
    /\ ~Truthy(call.md5)
    /\ disk[SafeFilename(call.filename)] =
          File(SubSeq(ServedBody(call.url), 1, CutAt))
    /\ SubSeq(ServedBody(call.url), 1, CutAt) # ServedBody(call.url)

\* C35: in a store that only download_pdf writes to, a file whose sidecar
\* holds its digest is the whole body of a transfer that ran to its end; and
\* after a failed call that cut its target file short every call for that
\* file name issues a network request.
C35_NoHitOnIncomplete ==
    nexternal = 0 =>
        /\ \A path \in StoreNames :
              DigestsMatch(path) =>
                  <<path, disk[path].text>> \in completed
        /\ CallTruncated =>
              \A u \in StoreUrls, f \in StoreFilenames, o \in FetchOutcomes :
                  SafeFilename(f) = SafeFilename(call.filename) =>
                      download_pdf(disk, u, f, ServedBody(u), o, CutAt).net

\* a transfer broken mid-stream left the file cut short beside the empty
\* sidecar of an earlier failed call
C35_Witness ==
    /\ nexternal = 0
    /\ ncalls = 2
    /\ CallTruncated
    /\ call.pre_file.st = "file"
    /\ call.pre_side = File(<<>>)
    /\ disk[Md5Path(SafeFilename(call.filename))] = File(<<>>)

\* a call for another URL under a file name that sanitizes to the name of
\* the call before it, which returned a digest, with the store untouched in
\* between
SameNameOtherUrl ==
    /\ ncalls' = ncalls + 1
    /\ quiet
    /\ call # NoCall
    /\ Truthy(call.md5)
    /\ call'.url # call.url
    /\ SafeFilename(call'.filename) = SafeFilename(call.filename)

\* the call is answered from the store: no request, the store as it was,
\* and the digest of the earlier call, which is that of the earlier URL's
\* body when the earlier call fetched it
AnsweredFromStore ==
    /\ ~call'.net
    /\ call'.log = "Skipping download"
    /\ disk' = disk
    /\ call'.md5 = call.md5
    /\ call.net => call'.md5 = Md5Hex(ServedBody(call.url))

\* C36: after a download_pdf call that returned a digest, a call for a
\* different URL whose file name sanitizes to the same name is a cache hit:
\* it issues no request and returns the digest of the first URL's content.
C36_CacheKeyedByName ==
    [][SameNameOtherUrl => AnsweredFromStore]_vars

\* a cache hit that returned the digest of the body fetched from another URL,
\* which is not the digest of the body served at the URL of the call
C36_Witness ==
    /\ nexternal = 0
    /\ ncalls = 2
    /\ ~call.net
    /\ Truthy(call.md5)
    /\ call.md5 # Md5Hex(ServedBody(call.url))
    /\ \E t \in completed :
          /\ t[1] = SafeFilename(call.filename)
          /\ Md5Hex(t[2]) = call.md5
          /\ t[2] # ServedBody(call.url)

\* the file a record names is in the store under that name, with the
\* digest of the record
FileOfRecord(rec) ==
    /\ rec.downloaded_filename \in DOMAIN disk
    /\ disk[rec.downloaded_filename].st = "file"
    /\ Md5Hex(disk[rec.downloaded_filename].text) = rec.file_md5

\* C37: for every record of the run the store holds a file named as the
\* record's downloaded_filename whose digest is the record's file_md5.
C37_RecordNamesStoredFile ==
    \A i \in 1..Len(all_metadata) : FileOfRecord(all_metadata[i])

\* a run of organize_pdfs ended that was started right after another one
SecondRunEnded == util = "done" /\ earlier_runs # <<>>

\* the run before the one that ended
RunBefore == earlier_runs[Len(earlier_runs)]

\* the run that ended left the files as the run before had left them and
\* moved nothing
NothingLeftToDo == tree = RunBefore.tree /\ moved_files = 0

Organized(files) ==
    /\ DestinationPath(Year2021, NameA) \in files
    /\ SourcePath(NameA) \notin files

\* a pass of organize_pdfs moved the document: only the document leaves the
\* store root, its sidecar stays where it was
OnlyDocumentMoved ==
    (/\ Len(passes') = Len(passes) + 1
     /\ passes'[Len(passes')].outcome = "moved") =>
        /\ tree' = (tree \ {SourcePath(NameA)})
                      \cup {DestinationPath(Year2021, NameA)}
        /\ disk'[NameA] = Absent
        /\ disk'[Md5Path(NameA)] = disk[Md5Path(NameA)]
        /\ SourcePath(Md5Path(NameA)) \in tree
              => SourcePath(Md5Path(NameA)) \in tree'

\* a download_pdf call for the organized document misses the cache and
\* fetches it into the store root, beside the copy in the year directory
RefetchedAfterMove ==
    (ncalls' = ncalls + 1 /\ Organized(tree)) =>
        /\ call'.net
        /\ Truthy(call'.md5) =>
              /\ SourcePath(NameA) \in tree'
              /\ DestinationPath(Year2021, NameA) \in tree'

\* a pass of organize_pdfs for the refetched document, with nothing failing,
\* skips it for the file in the year directory and leaves both copies
CollisionSkipped ==
    (/\ Len(passes') = Len(passes) + 1
     /\ passes'[Len(passes')].item = ItemA
     /\ NameA \notin processed_filenames
     /\ passes'[Len(passes')].outcome # "os_error"
     /\ SourcePath(NameA) \in tree
     /\ DestinationPath(Year2021, NameA) \in tree) =>
        /\ passes'[Len(passes')].outcome = "collision"
        /\ tree' = tree
        /\ moved_files' = moved_files

\* C39: organize_pdfs moves the document alone and leaves its sidecar in
\* the store root; a download_pdf call for the moved document is then a
\* cache miss that fetches it into the store root again; and the next
\* organize_pdfs run skips it because the destination exists, so that two
\* copies remain.
C39_OrganizeInvalidatesCache ==
    /\ [][OnlyDocumentMoved]_vars
    /\ [][RefetchedAfterMove]_vars
    /\ [][CollisionSkipped]_vars

\* the document downloaded, moved to its year directory, fetched again beside
\* the sidecar left behind, and skipped by the next run: two copies
C39_Witness ==
    /\ util = "done"
    /\ earlier_runs # <<>>
    /\ earlier_runs[1].moved = 1
    /\ ncalls = 2
    /\ call.net
    /\ call.pre_file = Absent
    /\ call.pre_side.st = "file"
    /\ \E i \in 1..Len(passes) : passes[i].outcome = "collision"
    /\ moved_files = 0
    /\ SourcePath(NameA) \in tree
    /\ DestinationPath(Year2021, NameA) \in tree

====
